---- MODULE Spec2Model ----
(***************************************************************************)
(* Model of the bytecave relay's two hand-built components:                *)
(*   - RateLimiter: admission control for peers and source addresses       *)
(*   - StorageWebSocketRelay: backend registry and store-and-forward       *)
(*     routing of storage requests and responses                           *)
(* Time is Date.now() in milliseconds; it advances in steps of TickMs.     *)
(***************************************************************************)
EXTENDS Integers, Sequences, FiniteSets, TLC

\* ------------------------------------------------------------------------
\* Bounds of the model
\* ------------------------------------------------------------------------
MaxTime == 4000
TickMs == 1000

\* RateLimiter configuration used by the model (constructor argument)
maxConnectionsPerPeer == 2
maxConnectionsPerIP == 3
connectionWindowMs == 1500
blockDurationMs == 2000
globalMaxConnections == 2
maxBandwidthPerPeerMbps == 1
MaxBandwidthTracked == 262144

Peers == {"p1", "p2"}
IPs == {"a1"}
NoIP == ""
ByteCounts == {65536, 131072}
NoDuration == 0
Durations == {NoDuration, 1000}

\* the 1-second bandwidth window of trackBandwidth
BandwidthWindowMs == 1000

\* StorageWebSocketRelay: sockets, backend identifiers, request identifiers
Channels == {"c1", "c2", "c3"}
\* sockets that send storage-request messages / register messages in the model
ClientChannels == {"c1", "c2"}
BackendChannels == {"c2", "c3"}
BackendIds == {"B1", "B2"}
ReqIds == {"r1", "r2"}
NoReq == ""
NoTarget == ""
NoPeerId == ""
MaxMessages == 4
WsTickMs == 30000
WsMaxTime == 90000
\* cleanupPendingRequests: const timeout = 60000
RequestTimeoutMs == 60000

\* RelayNode peer directory: announcing peers, kinds of announcement
DirNodes == {"n1", "n2"}
\* a storage node's announcement, a relay's, one without nodeId, bytes that
\* are not JSON
AnnouncementKinds == {"storage", "relay", "nonodeid", "unparsable"}
\* setupPubsub: const staleThreshold = 5 * 60 * 1000; setInterval(..., 60000)
StaleThresholdMs == 300000
DirCleanupIntervalMs == 60000
DirTickMs == 30000
DirMaxTime == 480000

\* RelayNode identity: key material of a generated key, number of starts
KeyBytes == {0, 1, 255}
MaxKeyLen == 3
MaxStarts == 3
NoKey == [type |-> "none", raw |-> <<>>]
NoFile == <<>>

VARIABLES
  now,          \* Date.now()
  peerMetrics,  \* RateLimiter.peerMetrics : Map<peerId, PeerMetrics>
  ipMetrics,    \* RateLimiter.ipMetrics   : Map<ip, IPMetrics>
  blockedIPs,   \* RateLimiter.blockedIPs  : Set<ip>
  last,         \* the operation performed by the last step and what it returned
  peerCalls,    \* history: allowConnection calls per peer in the peer's current window
  ipCalls,      \* history: per address, calls carrying it / calls that reached checkIPLimit, in its current window
  run,          \* history: consecutive allowConnection(P) calls of a previously unseen peer
  wsState,         \* per socket: "open", "closing" (no longer open, 'close' not yet handled), "closed"
  nodeConnections, \* StorageWebSocketRelay.nodeConnections, in Map insertion order
  pendingRequests, \* StorageWebSocketRelay.pendingRequests : Map<requestId, PendingRequest>
  sent,            \* history: bag of the send() calls the relay made that carry a requestId
  handled,         \* history: number of messages handled so far
  regOrder,        \* history: the registered backend identifiers, earliest-inserted first
  ev,              \* the relay event handled by the last step and what it did
  lastSweep,       \* the instant the pending-request interval timer was started or last fired
  admitted,        \* history: the peers whose latest peer:connect passed the rate check
  openConns,       \* history: per peer, the libp2p connections that are open, by how their peer:connect was evaluated
  storageNodes,    \* RelayNode.storageNodes : Map<peerId, StorageNodeInfo> (lastSeen)
  lastCleanup,     \* the instant the stale-node interval timer was started or last fired
  dirEv,           \* the peer-directory event handled by the last step and its response
  keyFile,         \* the content of the file at config.privateKeyPath (NoFile: it does not exist)
  nodeKey,         \* the private key of the running libp2p node (NoKey: this.node = null)
  starts,          \* history: number of start() calls so far
  firstKey,        \* history: the key the first start() ran with
  idEv             \* the start/stop performed by the last step

rlVars == <<peerMetrics, ipMetrics, blockedIPs, last, peerCalls, ipCalls, run>>
wsVars == <<wsState, nodeConnections, pendingRequests, sent, handled, regOrder, ev, lastSweep>>
dirVars == <<storageNodes, lastCleanup, dirEv>>
keyVars == <<keyFile, nodeKey, starts, firstKey, idEv>>
nodeVars == <<admitted, openConns, dirVars, keyVars>>
vars == <<now, peerMetrics, ipMetrics, blockedIPs, last, peerCalls, ipCalls, run,
          wsState, nodeConnections, pendingRequests, sent, handled, regOrder, ev, lastSweep,
          admitted,
          openConns, storageNodes, lastCleanup, dirEv, keyFile, nodeKey, starts, firstKey, idEv>>

\* ------------------------------------------------------------------------
\* Map helpers (a JS Map is a function on the set of its keys)
\* ------------------------------------------------------------------------
MapSet(m, k, v) == [x \in (DOMAIN m) \cup {k} |-> IF x = k THEN v ELSE m[x]]
MapDelete(m, k) == [x \in (DOMAIN m) \ {k} |-> m[x]]
EmptyMap == [x \in {} |-> 0]

Min(a, b) == IF a < b THEN a ELSE b

NoOp == [op |-> "none", peer |-> "", ip |-> NoIP, allowed |-> TRUE, reason |-> "", expired |-> FALSE,
         bytes |-> 0, durationMs |-> NoDuration]
NoRun == [peer |-> "", start |-> 0, res |-> <<>>]
\* open connections of a peer: allowed in the peer's current window (cur),
\* allowed in an earlier window (old), denied
NoOpenConns == [cur |-> 0, old |-> 0, denied |-> 0]

\* bytes and durationMs are the arguments of trackBandwidth and blockPeer
Op(o, p, ip, allowed, reason, expired) ==
  [op |-> o, peer |-> p, ip |-> ip, allowed |-> allowed, reason |-> reason, expired |-> expired,
   bytes |-> 0, durationMs |-> NoDuration]

\* ------------------------------------------------------------------------
\* RateLimiter
\* ------------------------------------------------------------------------
NewPeerMetrics(t) ==
  [connections |-> 0, lastConnection |-> t, bandwidth |-> 0,
   lastBandwidthReset |-> t, blocked |-> FALSE, blockedUntil |-> 0]

\* allowConnection, lines 62-65: peers whose window start is within the window
TotalConnections(pm, t) ==
  Cardinality({p \in DOMAIN pm : t - pm[p].lastConnection < connectionWindowMs})

\* the limit compared with > instead of >=
GlobalLimitReached_Strict(pm, t) == TotalConnections(pm, t) > globalMaxConnections

GlobalLimitReached(pm, t) == TotalConnections(pm, t) >= globalMaxConnections

\* the per-IP limit compared with > instead of >=
CheckIPLimit_OffByOne(im, bl, ip, t) ==
  IF ip \notin DOMAIN im
  THEN [allowed |-> TRUE,
        im |-> MapSet(im, ip, [connections |-> 1, lastConnection |-> t, peerIds |-> {}]),
        bl |-> bl]
  ELSE IF t - im[ip].lastConnection >= connectionWindowMs
  THEN [allowed |-> TRUE,
        im |-> MapSet(im, ip, [connections |-> 1, lastConnection |-> t, peerIds |-> {}]),
        bl |-> bl]
  ELSE IF im[ip].connections > maxConnectionsPerIP
  THEN [allowed |-> FALSE, im |-> im, bl |-> bl \cup {ip}]
  ELSE [allowed |-> TRUE,
        im |-> MapSet(im, ip, [im[ip] EXCEPT !.connections = @ + 1]),
        bl |-> bl]

\* an elapsed window is not reset: the call is counted in the old window
CheckIPLimit_NoReset(im, bl, ip, t) ==
  IF ip \notin DOMAIN im
  THEN [allowed |-> TRUE,
        im |-> MapSet(im, ip, [connections |-> 1, lastConnection |-> t, peerIds |-> {}]),
        bl |-> bl]
  ELSE IF im[ip].connections >= maxConnectionsPerIP
  THEN [allowed |-> FALSE, im |-> im, bl |-> bl \cup {ip}]
  ELSE [allowed |-> TRUE,
        im |-> MapSet(im, ip, [im[ip] EXCEPT !.connections = @ + 1]),
        bl |-> bl]

\* checkIPLimit: the result and the new ipMetrics / blockedIPs
CheckIPLimit(im, bl, ip, t) ==
  IF ip \notin DOMAIN im
  THEN [allowed |-> TRUE,
        im |-> MapSet(im, ip, [connections |-> 1, lastConnection |-> t, peerIds |-> {}]),
        bl |-> bl]
  ELSE IF t - im[ip].lastConnection >= connectionWindowMs
  THEN [allowed |-> TRUE,
        im |-> MapSet(im, ip, [connections |-> 1, lastConnection |-> t, peerIds |-> {}]),
        bl |-> bl]
  ELSE IF im[ip].connections >= maxConnectionsPerIP
  THEN [allowed |-> FALSE, im |-> im, bl |-> bl \cup {ip}]
  ELSE [allowed |-> TRUE,
        im |-> MapSet(im, ip, [im[ip] EXCEPT !.connections = @ + 1]),
        bl |-> bl]

\* the expired block is cleared without resetting the connection count
UnblockIfExpired_KeepCount(m, t) ==
  IF m.blocked /\ t >= m.blockedUntil
  THEN [m EXCEPT !.blocked = FALSE]
  ELSE m

\* lines 107-111: the block period expired
UnblockIfExpired(m, t) ==
  IF m.blocked /\ t >= m.blockedUntil
  THEN [m EXCEPT !.blocked = FALSE, !.connections = 0]
  ELSE m

\* the per-peer limit compared with > instead of >=
CheckConnectionRate_OffByOne(m, t) ==
  IF t - m.lastConnection < connectionWindowMs
  THEN IF m.connections > maxConnectionsPerPeer
       THEN [allowed |-> FALSE,
             m |-> [m EXCEPT !.blocked = TRUE, !.blockedUntil = t + blockDurationMs]]
       ELSE [allowed |-> TRUE, m |-> [m EXCEPT !.connections = @ + 1]]
  ELSE [allowed |-> TRUE, m |-> [m EXCEPT !.connections = 1, !.lastConnection = t]]

\* the denied call is counted as well
CheckConnectionRate_CountsDenied(m, t) ==
  IF t - m.lastConnection < connectionWindowMs
  THEN IF m.connections >= maxConnectionsPerPeer
       THEN [allowed |-> FALSE,
             m |-> [m EXCEPT !.blocked = TRUE, !.blockedUntil = t + blockDurationMs,
                             !.connections = @ + 1]]
       ELSE [allowed |-> TRUE, m |-> [m EXCEPT !.connections = @ + 1]]
  ELSE [allowed |-> TRUE, m |-> [m EXCEPT !.connections = 1, !.lastConnection = t]]

\* a new window starts from the old count
CheckConnectionRate_CarryOver(m, t) ==
  IF t - m.lastConnection < connectionWindowMs
  THEN IF m.connections >= maxConnectionsPerPeer
       THEN [allowed |-> FALSE,
             m |-> [m EXCEPT !.blocked = TRUE, !.blockedUntil = t + blockDurationMs]]
       ELSE [allowed |-> TRUE, m |-> [m EXCEPT !.connections = @ + 1]]
  ELSE [allowed |-> TRUE, m |-> [m EXCEPT !.connections = @ + 1, !.lastConnection = t]]

\* lines 113-129: the connection-rate check on the peer's metrics
CheckConnectionRate(m, t) ==
  IF t - m.lastConnection < connectionWindowMs
  THEN IF m.connections >= maxConnectionsPerPeer
       THEN [allowed |-> FALSE,
             m |-> [m EXCEPT !.blocked = TRUE, !.blockedUntil = t + blockDurationMs]]
       ELSE [allowed |-> TRUE, m |-> [m EXCEPT !.connections = @ + 1]]
  ELSE [allowed |-> TRUE, m |-> [m EXCEPT !.connections = 1, !.lastConnection = t]]

\* lines 84-129: the peer-specific part of allowConnection
CheckPeer(pm, p, t) ==
  LET m0 == IF p \in DOMAIN pm THEN pm[p] ELSE NewPeerMetrics(t)
  IN IF m0.blocked /\ t < m0.blockedUntil
     THEN [allowed |-> FALSE, reason |-> "peerblocked", expired |-> FALSE,
           pm |-> MapSet(pm, p, m0)]
     ELSE LET m1 == UnblockIfExpired(m0, t)
              r == CheckConnectionRate(m1, t)
          IN [allowed |-> r.allowed,
              reason |-> IF r.allowed THEN "" ELSE "rate",
              expired |-> (m0.blocked /\ t >= m0.blockedUntil),
              pm |-> MapSet(pm, p, r.m)]

\* the blocked-address check runs before the global limit
AllowConnectionResult_AddressFirst(pm, im, bl, p, ip, t) ==
  IF ip # NoIP /\ ip \in bl
  THEN [allowed |-> FALSE, reason |-> "ipblocked", expired |-> FALSE,
        pm |-> pm, im |-> im, bl |-> bl]
  ELSE IF GlobalLimitReached(pm, t)
  THEN [allowed |-> FALSE, reason |-> "global", expired |-> FALSE,
        pm |-> pm, im |-> im, bl |-> bl]
  ELSE LET c == IF ip # NoIP THEN CheckIPLimit(im, bl, ip, t)
                ELSE [allowed |-> TRUE, im |-> im, bl |-> bl]
       IN IF ~c.allowed
          THEN [allowed |-> FALSE, reason |-> "iplimit", expired |-> FALSE,
                pm |-> pm, im |-> c.im, bl |-> c.bl]
          ELSE LET r == CheckPeer(pm, p, t)
               IN [allowed |-> r.allowed, reason |-> r.reason, expired |-> r.expired,
                   pm |-> r.pm, im |-> c.im, bl |-> c.bl]

\* the whole of allowConnection(peerId, ip?) at time t
AllowConnectionResult(pm, im, bl, p, ip, t) ==
  IF GlobalLimitReached(pm, t)
  THEN [allowed |-> FALSE, reason |-> "global", expired |-> FALSE,
        pm |-> pm, im |-> im, bl |-> bl]
  ELSE IF ip # NoIP /\ ip \in bl
  THEN [allowed |-> FALSE, reason |-> "ipblocked", expired |-> FALSE,
        pm |-> pm, im |-> im, bl |-> bl]
  ELSE LET c == IF ip # NoIP THEN CheckIPLimit(im, bl, ip, t)
                ELSE [allowed |-> TRUE, im |-> im, bl |-> bl]
       IN IF ~c.allowed
          THEN [allowed |-> FALSE, reason |-> "iplimit", expired |-> FALSE,
                pm |-> pm, im |-> c.im, bl |-> c.bl]
          ELSE LET r == CheckPeer(pm, p, t)
               IN [allowed |-> r.allowed, reason |-> r.reason, expired |-> r.expired,
                   pm |-> r.pm, im |-> c.im, bl |-> c.bl]

\* operations (what the code does to the RateLimiter and what it returns) -----
allowConnection(p, ip) ==
  LET r == AllowConnectionResult(peerMetrics, ipMetrics, blockedIPs, p, ip, now)
  IN /\ peerMetrics' = r.pm
     /\ ipMetrics' = r.im
     /\ blockedIPs' = r.bl
     /\ last' = Op("allowConnection", p, ip, r.allowed, r.reason, r.expired)
     /\ UNCHANGED now

MaxBytesPerSecond == (maxBandwidthPerPeerMbps * 1024 * 1024) \div 8

\* the ceiling compared with >= instead of >
BandwidthExceeded_AtCeiling(total) == total >= MaxBytesPerSecond

\* line 190: metrics.bandwidth > maxBytesPerSecond
BandwidthExceeded(total) == total > MaxBytesPerSecond

\* lines 179-185: reset the counter when the 1-second window elapsed, then add
TrackedBandwidth(m, bytes, t) ==
  LET m1 == IF t - m.lastBandwidthReset >= BandwidthWindowMs
            THEN [m EXCEPT !.bandwidth = 0, !.lastBandwidthReset = t]
            ELSE m
  IN [m1 EXCEPT !.bandwidth = @ + bytes]

\* an unknown peer gets a PeerState
trackBandwidth_CreatesState(p, bytes) ==
  LET m0 == IF p \in DOMAIN peerMetrics THEN peerMetrics[p] ELSE NewPeerMetrics(now)
      m2 == TrackedBandwidth(m0, bytes, now)
  IN /\ m2.bandwidth <= MaxBandwidthTracked
     /\ peerMetrics' = MapSet(peerMetrics, p, m2)
     /\ last' = [Op("trackBandwidth", p, NoIP, ~BandwidthExceeded(m2.bandwidth),
                     IF BandwidthExceeded(m2.bandwidth) THEN "bandwidth" ELSE "", FALSE)
                  EXCEPT !.bytes = bytes]
     /\ UNCHANGED <<now, ipMetrics, blockedIPs>>

\* trackBandwidth; the accumulated value is kept below MaxBandwidthTracked
trackBandwidth(p, bytes) ==
  /\ p \in DOMAIN peerMetrics =>
       TrackedBandwidth(peerMetrics[p], bytes, now).bandwidth <= MaxBandwidthTracked
  /\ IF p \notin DOMAIN peerMetrics
     THEN /\ peerMetrics' = peerMetrics
          /\ last' = [Op("trackBandwidth", p, NoIP, TRUE, "", FALSE) EXCEPT !.bytes = bytes]
     ELSE LET m2 == TrackedBandwidth(peerMetrics[p], bytes, now)
          IN /\ peerMetrics' = MapSet(peerMetrics, p, m2)
             /\ last' = [Op("trackBandwidth", p, NoIP, ~BandwidthExceeded(m2.bandwidth),
                             IF BandwidthExceeded(m2.bandwidth) THEN "bandwidth" ELSE "", FALSE)
                          EXCEPT !.bytes = bytes]
  /\ UNCHANGED <<now, ipMetrics, blockedIPs>>

\* the PeerState is dropped when its count reaches 0
recordDisconnection_Removes(p) ==
  /\ peerMetrics' =
       IF p \in DOMAIN peerMetrics /\ peerMetrics[p].connections > 1
       THEN MapSet(peerMetrics, p, [peerMetrics[p] EXCEPT !.connections = @ - 1])
       ELSE MapDelete(peerMetrics, p)
  /\ last' = Op("recordDisconnection", p, NoIP, TRUE, "", FALSE)
  /\ UNCHANGED <<now, ipMetrics, blockedIPs>>

\* the count is decremented without the 'connections > 0' test
recordDisconnection_Unguarded(p) ==
  /\ peerMetrics' =
       IF p \in DOMAIN peerMetrics
       THEN MapSet(peerMetrics, p, [peerMetrics[p] EXCEPT !.connections = @ - 1])
       ELSE peerMetrics
  /\ last' = Op("recordDisconnection", p, NoIP, TRUE, "", FALSE)
  /\ UNCHANGED <<now, ipMetrics, blockedIPs>>

recordDisconnection(p) ==
  /\ peerMetrics' =
       IF p \in DOMAIN peerMetrics /\ peerMetrics[p].connections > 0
       THEN MapSet(peerMetrics, p, [peerMetrics[p] EXCEPT !.connections = @ - 1])
       ELSE peerMetrics
  /\ last' = Op("recordDisconnection", p, NoIP, TRUE, "", FALSE)
  /\ UNCHANGED <<now, ipMetrics, blockedIPs>>

\* durationMs is used as given, also when it is absent
blockPeer_NoDefault(p, durationMs) ==
  LET m0 == IF p \in DOMAIN peerMetrics THEN peerMetrics[p] ELSE NewPeerMetrics(now)
  IN /\ peerMetrics' = MapSet(peerMetrics, p,
                              [m0 EXCEPT !.blocked = TRUE, !.blockedUntil = now + durationMs])
     /\ last' = [Op("blockPeer", p, NoIP, TRUE, "", FALSE) EXCEPT !.durationMs = durationMs]
     /\ UNCHANGED <<now, ipMetrics, blockedIPs>>

\* durationMs is taken as the instant the block ends
blockPeer_AbsoluteExpiry(p, durationMs) ==
  LET m0 == IF p \in DOMAIN peerMetrics THEN peerMetrics[p] ELSE NewPeerMetrics(now)
      d == IF durationMs # NoDuration THEN durationMs ELSE blockDurationMs
  IN /\ peerMetrics' = MapSet(peerMetrics, p,
                              [m0 EXCEPT !.blocked = TRUE, !.blockedUntil = d])
     /\ last' = [Op("blockPeer", p, NoIP, TRUE, "", FALSE) EXCEPT !.durationMs = durationMs]
     /\ UNCHANGED <<now, ipMetrics, blockedIPs>>

\* lines 211-225; durationMs || blockDurationMs: an absent or zero duration
\* gives the default, any other number is added to now as it is
blockPeer(p, durationMs) ==
  LET m0 == IF p \in DOMAIN peerMetrics THEN peerMetrics[p] ELSE NewPeerMetrics(now)
      d == IF durationMs # NoDuration THEN durationMs ELSE blockDurationMs
  IN /\ peerMetrics' = MapSet(peerMetrics, p,
                              [m0 EXCEPT !.blocked = TRUE, !.blockedUntil = now + d])
     /\ last' = [Op("blockPeer", p, NoIP, TRUE, "", FALSE) EXCEPT !.durationMs = durationMs]
     /\ UNCHANGED <<now, ipMetrics, blockedIPs>>

blockIP(ip) ==
  /\ blockedIPs' = blockedIPs \cup {ip}
  /\ last' = Op("blockIP", "", ip, TRUE, "", FALSE)
  /\ UNCHANGED <<now, peerMetrics, ipMetrics>>

\* the record of the operation says whether a block in force was lifted
unblockPeer(p) ==
  /\ peerMetrics' =
       IF p \in DOMAIN peerMetrics
       THEN MapSet(peerMetrics, p, [peerMetrics[p] EXCEPT !.blocked = FALSE, !.blockedUntil = 0])
       ELSE peerMetrics
  /\ last' = Op("unblockPeer", p, NoIP, TRUE,
                IF p \in DOMAIN peerMetrics /\ peerMetrics[p].blocked
                   /\ now < peerMetrics[p].blockedUntil
                THEN "lifted" ELSE "", FALSE)
  /\ UNCHANGED <<now, ipMetrics, blockedIPs>>

unblockIP(ip) ==
  /\ blockedIPs' = blockedIPs \ {ip}
  /\ last' = Op("unblockIP", "", ip, TRUE,
                IF ip \in blockedIPs THEN "lifted" ELSE "", FALSE)
  /\ UNCHANGED <<now, peerMetrics, ipMetrics>>

ExpiryTime == connectionWindowMs * 2

\* the sweep also drops idle PeerStates whose blocked flag is set
cleanup_DropsBlocked ==
  /\ peerMetrics' =
       [p \in {q \in DOMAIN peerMetrics : ~(now - peerMetrics[q].lastConnection > ExpiryTime)}
          |-> peerMetrics[p]]
  /\ ipMetrics' =
       [a \in {b \in DOMAIN ipMetrics : ~(now - ipMetrics[b].lastConnection > ExpiryTime)}
          |-> ipMetrics[a]]
  /\ last' = Op("cleanup", "", NoIP, TRUE, "", FALSE)
  /\ UNCHANGED <<now, blockedIPs>>

cleanup ==
  /\ peerMetrics' =
       [p \in {q \in DOMAIN peerMetrics :
                 ~(~peerMetrics[q].blocked /\ now - peerMetrics[q].lastConnection > ExpiryTime)}
          |-> peerMetrics[p]]
  /\ ipMetrics' =
       [a \in {b \in DOMAIN ipMetrics : ~(now - ipMetrics[b].lastConnection > ExpiryTime)}
          |-> ipMetrics[a]]
  /\ last' = Op("cleanup", "", NoIP, TRUE, "", FALSE)
  /\ UNCHANGED <<now, blockedIPs>>

\* Date.now() advances; the record of the last operation is cleared
tick ==
  /\ now + TickMs <= MaxTime
  /\ now' = now + TickMs
  /\ last' = NoOp
  /\ UNCHANGED <<peerMetrics, ipMetrics, blockedIPs>>

\* ------------------------------------------------------------------------
\* StorageWebSocketRelay
\* ------------------------------------------------------------------------
NoEvent == [op |-> "none", ws |-> "", requestId |-> NoReq, named |-> NoTarget,
            target |-> NoTarget, threw |-> FALSE, sent |-> {}]

\* op: the message type or event; named: the targetPeerId of the message;
\* target: the backend the request was routed to / the backend registered
\* or removed by the step; threw: send() on the
\* backend's socket threw; sent: the send() calls of this step
Event(o, ws, r, named, target, threw, msgs) ==
  [op |-> o, ws |-> ws, requestId |-> r, named |-> named, target |-> target,
   threw |-> threw, sent |-> msgs]

Msg(to, type, r, err) == [to |-> to, type |-> type, requestId |-> r, error |-> err]

\* sendError(ws, error, requestId)
ErrorMsg(ws, err, r) == Msg(ws, "error", r, err)

BagAdd(b, e) ==
  IF e.requestId = NoReq THEN b
  ELSE IF e \in DOMAIN b THEN [b EXCEPT ![e] = @ + 1] ELSE MapSet(b, e, 1)

RECURSIVE BagAddAll(_, _)
BagAddAll(b, S) ==
  IF S = {} THEN b
  ELSE LET e == CHOOSE x \in S : TRUE IN BagAddAll(BagAdd(b, e), S \ {e})

\* nodeConnections as a Map that keeps insertion order
RegKeys(reg) == {reg[i].peerId : i \in 1..Len(reg)}
RegIndex(reg, id) == CHOOSE i \in 1..Len(reg) : reg[i].peerId = id
RegGet(reg, id) == reg[RegIndex(reg, id)]
\* Map.set that leaves the entry of an existing key as it is
RegSet_KeepExisting(reg, id, conn) ==
  IF id \in RegKeys(reg) THEN reg ELSE Append(reg, conn)

\* Map.set: an existing key keeps its position, a new key goes last
RegSet(reg, id, conn) ==
  IF id \in RegKeys(reg)
  THEN [reg EXCEPT ![RegIndex(reg, id)] = conn]
  ELSE Append(reg, conn)
RegDeleteAt(reg, i) == SubSeq(reg, 1, i - 1) \o SubSeq(reg, i + 1, Len(reg))

\* handleRegister
handleRegister(ws, peerId) ==
  IF peerId = NoPeerId
  THEN LET m == ErrorMsg(ws, "Missing peerId in register message", NoReq)
       IN /\ sent' = BagAdd(sent, m)
          /\ ev' = Event("register", ws, NoReq, NoTarget, NoTarget, FALSE, {m})
          /\ UNCHANGED <<nodeConnections, pendingRequests, regOrder>>
  ELSE LET m == Msg(ws, "registered", NoReq, "")
       IN /\ nodeConnections' =
               RegSet(nodeConnections, peerId,
                      [ws |-> ws, peerId |-> peerId, connectedAt |-> now])
          /\ regOrder' = IF \E i \in 1..Len(regOrder) : regOrder[i] = peerId
                         THEN regOrder ELSE Append(regOrder, peerId)
          /\ sent' = BagAdd(sent, m)
          /\ ev' = Event("register", ws, NoReq, NoTarget, peerId, FALSE, {m})
          /\ UNCHANGED pendingRequests

\* lines 189-190: availableNodes[availableNodes.length - 1] instead of [0]
AutoSelect_Last(reg) == reg[Len(reg)].peerId

\* lines 182-192: auto-select the first available node
AutoSelect(reg) == reg[1].peerId

\* the request is answered with an error although a PendingRequest was stored
RejectRequest_StoresPending(ws, err, requestId, named, target) ==
  LET m == ErrorMsg(ws, err, requestId)
  IN /\ sent' = BagAdd(sent, m)
     /\ ev' = Event("storage-request", ws, requestId, named, target, FALSE, {m})
     /\ pendingRequests' =
          IF requestId = NoReq THEN pendingRequests
          ELSE MapSet(pendingRequests, requestId,
                      [browserWs |-> ws, requestId |-> requestId, timestamp |-> now])

\* sendError(ws, ..., requestId); return  (lines 178-179, 186-187, 197-198)
RejectRequest(ws, err, requestId, named, target) ==
  LET m == ErrorMsg(ws, err, requestId)
  IN /\ sent' = BagAdd(sent, m)
     /\ ev' = Event("storage-request", ws, requestId, named, target, FALSE, {m})
     /\ UNCHANGED pendingRequests

\* the catch block without pendingRequests.delete(requestId)
ForwardRequest_KeepsPending(ws, requestId, named, target, threw) ==
  LET nodeConn == RegGet(nodeConnections, target)
      fwd == Msg(nodeConn.ws, "storage-request", requestId, "")
      err == ErrorMsg(ws, "Failed to forward request to storage node", requestId)
      stored == MapSet(pendingRequests, requestId,
                  [browserWs |-> ws, requestId |-> requestId, timestamp |-> now])
  IN /\ threw => wsState[nodeConn.ws] # "open"
     /\ pendingRequests' = stored
     /\ IF threw
        THEN /\ sent' = BagAdd(sent, err)
             /\ ev' = Event("storage-request", ws, requestId, named, target, TRUE, {err})
        ELSE /\ sent' = BagAdd(sent, fwd)
             /\ ev' = Event("storage-request", ws, requestId, named, target, FALSE, {fwd})

\* the request is sent to the socket of every registered backend
ForwardRequest_Broadcast(ws, requestId, named, target, threw) ==
  LET nodeConn == RegGet(nodeConnections, target)
      fwds == {Msg(nodeConnections[i].ws, "storage-request", requestId, "") :
                 i \in 1..Len(nodeConnections)}
      err == ErrorMsg(ws, "Failed to forward request to storage node", requestId)
      stored == MapSet(pendingRequests, requestId,
                  [browserWs |-> ws, requestId |-> requestId, timestamp |-> now])
  IN /\ threw => wsState[nodeConn.ws] # "open"
     /\ IF threw
        THEN /\ sent' = BagAdd(sent, err)
             /\ pendingRequests' = MapDelete(stored, requestId)
             /\ ev' = Event("storage-request", ws, requestId, named, target, TRUE, {err})
        ELSE /\ sent' = BagAddAll(sent, fwds)
             /\ pendingRequests' = stored
             /\ ev' = Event("storage-request", ws, requestId, named, target, FALSE, fwds)

\* the request is sent to the node without pendingRequests.set(...)
ForwardRequest_NoPending(ws, requestId, named, target, threw) ==
  LET nodeConn == RegGet(nodeConnections, target)
      fwd == Msg(nodeConn.ws, "storage-request", requestId, "")
      err == ErrorMsg(ws, "Failed to forward request to storage node", requestId)
  IN /\ threw => wsState[nodeConn.ws] # "open"
     /\ pendingRequests' = pendingRequests
     /\ IF threw
        THEN /\ sent' = BagAdd(sent, err)
             /\ ev' = Event("storage-request", ws, requestId, named, target, TRUE, {err})
        ELSE /\ sent' = BagAdd(sent, fwd)
             /\ ev' = Event("storage-request", ws, requestId, named, target, FALSE, {fwd})

\* lines 201-227: store the pending request, send to the node, undo on a throw.
\* send() can throw only on a socket that is not open.
ForwardRequest(ws, requestId, named, target, threw) ==
  LET nodeConn == RegGet(nodeConnections, target)
      fwd == Msg(nodeConn.ws, "storage-request", requestId, "")
      err == ErrorMsg(ws, "Failed to forward request to storage node", requestId)
      stored == MapSet(pendingRequests, requestId,
                  [browserWs |-> ws, requestId |-> requestId, timestamp |-> now])
  IN /\ threw => wsState[nodeConn.ws] # "open"
     /\ IF threw
        THEN /\ sent' = BagAdd(sent, err)
             /\ pendingRequests' = MapDelete(stored, requestId)
             /\ ev' = Event("storage-request", ws, requestId, named, target, TRUE, {err})
        ELSE /\ sent' = BagAdd(sent, fwd)
             /\ pendingRequests' = stored
             /\ ev' = Event("storage-request", ws, requestId, named, target, FALSE, {fwd})

\* handleStorageRequest; threw: whether send() on the backend's socket throws
handleStorageRequest(ws, requestId, hasData, targetPeerId, threw) ==
  IF requestId = NoReq \/ ~hasData
  THEN /\ ~threw
       /\ RejectRequest(ws, "Missing required fields in storage request", requestId,
                        targetPeerId, NoTarget)
  ELSE IF targetPeerId = NoTarget /\ Len(nodeConnections) = 0
  THEN /\ ~threw
       /\ RejectRequest(ws, "No storage nodes available", requestId, targetPeerId, NoTarget)
  ELSE LET target == IF targetPeerId = NoTarget THEN AutoSelect(nodeConnections)
                     ELSE targetPeerId
       IN IF target \notin RegKeys(nodeConnections)
          THEN /\ ~threw
               /\ RejectRequest(ws, "Storage node not connected", requestId,
                                targetPeerId, NoTarget)
          ELSE ForwardRequest(ws, requestId, targetPeerId, target, threw)

\* the response is forwarded without pendingRequests.delete(requestId)
handleStorageResponse_NoDelete(ws, requestId) ==
  IF requestId \notin DOMAIN pendingRequests
  THEN /\ ev' = Event("storage-response", ws, requestId, NoTarget, NoTarget, FALSE, {})
       /\ UNCHANGED <<sent, pendingRequests>>
  ELSE LET m == Msg(pendingRequests[requestId].browserWs, "storage-response", requestId, "")
       IN /\ sent' = BagAdd(sent, m)
          /\ pendingRequests' = pendingRequests
          /\ ev' = Event("storage-response", ws, requestId, NoTarget, NoTarget, FALSE, {m})

\* the response goes to the origin of some pending request, not of its own
handleStorageResponse_AnyOrigin(ws, requestId) ==
  IF requestId \notin DOMAIN pendingRequests
  THEN /\ ev' = Event("storage-response", ws, requestId, NoTarget, NoTarget, FALSE, {})
       /\ UNCHANGED <<sent, pendingRequests>>
  ELSE LET other == IF \E q \in DOMAIN pendingRequests : q # requestId
                    THEN CHOOSE q \in DOMAIN pendingRequests : q # requestId
                    ELSE requestId
           m == Msg(pendingRequests[other].browserWs, "storage-response", requestId, "")
       IN /\ sent' = BagAdd(sent, m)
          /\ pendingRequests' = MapDelete(pendingRequests, requestId)
          /\ ev' = Event("storage-response", ws, requestId, NoTarget, NoTarget, FALSE, {m})

\* handleStorageResponse
handleStorageResponse(ws, requestId) ==
  IF requestId \notin DOMAIN pendingRequests
  THEN /\ ev' = Event("storage-response", ws, requestId, NoTarget, NoTarget, FALSE, {})
       /\ UNCHANGED <<sent, pendingRequests>>
  ELSE LET m == Msg(pendingRequests[requestId].browserWs, "storage-response", requestId, "")
       IN /\ sent' = BagAdd(sent, m)
          /\ pendingRequests' = MapDelete(pendingRequests, requestId)
          /\ ev' = Event("storage-response", ws, requestId, NoTarget, NoTarget, FALSE, {m})

\* the sweep looks at the table only while some backend is registered
TimedOut_WhileRegistered(pr, t) ==
  IF nodeConnections = <<>> THEN {}
  ELSE {r \in DOMAIN pr : t - pr[r].timestamp > RequestTimeoutMs}

\* the threshold compared with >= instead of >
TimedOut_AtThreshold(pr, t) == {r \in DOMAIN pr : t - pr[r].timestamp >= RequestTimeoutMs}

\* the entries older than the timeout
TimedOut(pr, t) == {r \in DOMAIN pr : t - pr[r].timestamp > RequestTimeoutMs}

\* the sweep reports the timeout without pendingRequests.delete(requestId)
cleanupPendingRequests_NoDelete ==
  LET old == TimedOut(pendingRequests, now)
      msgs == {ErrorMsg(pendingRequests[r].browserWs, "Storage request timed out", r) : r \in old}
  IN /\ sent' = BagAddAll(sent, msgs)
     /\ pendingRequests' = pendingRequests
     /\ ev' = Event("sweep", "", NoReq, NoTarget, NoTarget, FALSE, msgs)
     /\ UNCHANGED <<now, wsState, nodeConnections, handled, regOrder>>

\* cleanupPendingRequests
cleanupPendingRequests ==
  LET old == TimedOut(pendingRequests, now)
      msgs == {ErrorMsg(pendingRequests[r].browserWs, "Storage request timed out", r) : r \in old}
  IN /\ sent' = BagAddAll(sent, msgs)
     /\ pendingRequests' = [r \in (DOMAIN pendingRequests) \ old |-> pendingRequests[r]]
     /\ ev' = Event("sweep", "", NoReq, NoTarget, NoTarget, FALSE, msgs)
     /\ UNCHANGED <<now, wsState, nodeConnections, handled, regOrder>>

\* the close handler also drops the pending requests
onClose_DropsPending(ws) ==
  /\ wsState[ws] = "closing"
  /\ wsState' = [wsState EXCEPT ![ws] = "closed"]
  /\ nodeConnections' = SelectSeq(nodeConnections, LAMBDA c : c.ws # ws)
  /\ regOrder' = SelectSeq(regOrder, LAMBDA id : id \in RegKeys(nodeConnections'))
  /\ pendingRequests' = EmptyMap
  /\ ev' = Event("close", ws, NoReq, NoTarget, NoTarget, FALSE, {})
  /\ UNCHANGED <<now, sent, handled>>

\* the close handler removes the earliest entry, whatever socket it holds
onClose_FirstEntry(ws) ==
  /\ wsState[ws] = "closing"
  /\ wsState' = [wsState EXCEPT ![ws] = "closed"]
  /\ nodeConnections' = IF Len(nodeConnections) > 0 THEN Tail(nodeConnections) ELSE nodeConnections
  /\ regOrder' = SelectSeq(regOrder, LAMBDA id : id \in RegKeys(nodeConnections'))
  /\ ev' = Event("close", ws, NoReq, NoTarget, NoTarget, FALSE, {})
  /\ UNCHANGED <<now, pendingRequests, sent, handled>>

\* ws.on('close'): remove the first registry entry that holds this socket
onClose(ws) ==
  /\ wsState[ws] = "closing"
  /\ wsState' = [wsState EXCEPT ![ws] = "closed"]
  /\ nodeConnections' =
       IF \E i \in 1..Len(nodeConnections) : nodeConnections[i].ws = ws
       THEN RegDeleteAt(nodeConnections,
                        CHOOSE i \in 1..Len(nodeConnections) :
                          /\ nodeConnections[i].ws = ws
                          /\ \A j \in 1..(i - 1) : nodeConnections[j].ws # ws)
       ELSE nodeConnections
  /\ regOrder' = SelectSeq(regOrder, LAMBDA id : id \in RegKeys(nodeConnections'))
  /\ ev' = Event("close", ws, NoReq, NoTarget,
                 IF \E i \in 1..Len(nodeConnections) : nodeConnections[i].ws = ws
                 THEN nodeConnections[CHOOSE i \in 1..Len(nodeConnections) :
                                        /\ nodeConnections[i].ws = ws
                                        /\ \A j \in 1..(i - 1) : nodeConnections[j].ws # ws].peerId
                 ELSE NoTarget,
                 FALSE, {})
  /\ UNCHANGED <<now, pendingRequests, sent, handled>>

\* the peer's socket stops being open; its 'close' event is handled later
socketCloses(ws) ==
  /\ wsState[ws] = "open"
  /\ wsState' = [wsState EXCEPT ![ws] = "closing"]
  /\ ev' = Event("socket-closes", ws, NoReq, NoTarget, NoTarget, FALSE, {})
  /\ UNCHANGED <<now, nodeConnections, pendingRequests, sent, handled, regOrder>>

\* ws.on('message') + handleMessage: a message arrives on an open socket
onMessage(ws) ==
  /\ wsState[ws] = "open"
  /\ handled < MaxMessages
  /\ handled' = handled + 1
  /\ UNCHANGED <<now, wsState>>

onRegister(ws, peerId) ==
  /\ onMessage(ws)
  /\ handleRegister(ws, peerId)

onStorageRequest(ws, requestId, hasData, targetPeerId, threw) ==
  /\ onMessage(ws)
  /\ handleStorageRequest(ws, requestId, hasData, targetPeerId, threw)
  /\ UNCHANGED <<nodeConnections, regOrder>>

onStorageResponse(ws, requestId) ==
  /\ onMessage(ws)
  /\ handleStorageResponse(ws, requestId)
  /\ UNCHANGED <<nodeConnections, regOrder>>

\* the parse failure also terminates the socket and forgets its registration
onMalformed_Closes(ws, err) ==
  /\ wsState[ws] = "open"
  /\ handled < MaxMessages
  /\ handled' = handled + 1
  /\ wsState' = [wsState EXCEPT ![ws] = "closed"]
  /\ nodeConnections' = SelectSeq(nodeConnections, LAMBDA c : c.ws # ws)
  /\ regOrder' = SelectSeq(regOrder, LAMBDA id : id \in RegKeys(nodeConnections'))
  /\ sent' = BagAdd(sent, ErrorMsg(ws, err, NoReq))
  /\ ev' = Event("malformed", ws, NoReq, NoTarget, NoTarget, FALSE, {ErrorMsg(ws, err, NoReq)})
  /\ UNCHANGED <<now, pendingRequests>>

\* JSON.parse fails ("Invalid message format") or the type is unknown
onMalformed(ws, err) ==
  /\ onMessage(ws)
  /\ sent' = BagAdd(sent, ErrorMsg(ws, err, NoReq))
  /\ ev' = Event("malformed", ws, NoReq, NoTarget, NoTarget, FALSE, {ErrorMsg(ws, err, NoReq)})
  /\ UNCHANGED <<nodeConnections, pendingRequests, regOrder>>

wsTick ==
  /\ now + WsTickMs <= WsMaxTime
  /\ now' = now + WsTickMs
  /\ ev' = NoEvent
  /\ UNCHANGED <<wsState, nodeConnections, pendingRequests, sent, handled, regOrder>>

\* ------------------------------------------------------------------------
\* RelayNode: the peer directory (setupPubsub, setupPeerDirectory)
\* ------------------------------------------------------------------------
NoDirEvent == [op |-> "none", from |-> "", kind |-> "", peers |-> {}, timestamp |-> 0]

\* pubsub 'message' on the announce topic: a parsed announcement with a
\* nodeId and without isRelay is tracked with lastSeen = Date.now()
onAnnouncement(from, kind) ==
  /\ storageNodes' = IF kind = "storage" THEN MapSet(storageNodes, from, now)
                     ELSE storageNodes
  /\ dirEv' = [op |-> "announce", from |-> from, kind |-> kind, peers |-> {}, timestamp |-> now]
  /\ UNCHANGED <<now, lastCleanup>>

\* the stale test applied one cleanup interval too late
StaleNodes_OneIntervalLate(sn, t) ==
  {n \in DOMAIN sn : t - sn[n] > StaleThresholdMs + DirCleanupIntervalMs}

\* now - info.lastSeen > staleThreshold
StaleNodes(sn, t) == {n \in DOMAIN sn : t - sn[n] > StaleThresholdMs}

\* the interval timer fires DirCleanupIntervalMs after it was started / fired
CleanupDue == now - lastCleanup >= DirCleanupIntervalMs

\* the setInterval callback of setupPubsub
cleanupStaleNodes ==
  /\ CleanupDue
  /\ storageNodes' = [n \in (DOMAIN storageNodes) \ StaleNodes(storageNodes, now)
                        |-> storageNodes[n]]
  /\ lastCleanup' = now
  /\ dirEv' = [op |-> "cleanup", from |-> "", kind |-> "", peers |-> {}, timestamp |-> now]
  /\ UNCHANGED now

\* the handler of /bytecave/relay/peers/1.0.0: every tracked node, timestamp
handlePeerDirectory ==
  /\ dirEv' = [op |-> "directory", from |-> "", kind |-> "",
               peers |-> {[peerId |-> n, lastSeen |-> storageNodes[n]] : n \in DOMAIN storageNodes},
               timestamp |-> now]
  /\ UNCHANGED <<now, storageNodes, lastCleanup>>

\* time passes, at most up to the instant the interval timer fires; a due
\* timer callback runs before the clock moves on
dirTick ==
  /\ ~CleanupDue
  /\ now < DirMaxTime
  /\ now' = Min(Min(now + DirTickMs, lastCleanup + DirCleanupIntervalMs), DirMaxTime)
  /\ dirEv' = NoDirEvent
  /\ UNCHANGED <<storageNodes, lastCleanup>>

\* ------------------------------------------------------------------------
\* RelayNode: the persistent identity (start, stop, loadOrCreatePrivateKey)
\* ------------------------------------------------------------------------
NoIdEvent == [op |-> "none", created |-> FALSE]

\* the keys generateKeyPair('Ed25519') can return
RECURSIVE ByteSeqs(_)
ByteSeqs(n) ==
  IF n = 0 THEN {<<>>}
  ELSE LET shorter == ByteSeqs(n - 1)
       IN shorter \cup {Append(q, b) : q \in {x \in shorter : Len(x) = n - 1}, b \in KeyBytes}
GeneratedKeys == {[type |-> "Ed25519", raw |-> q] : q \in ByteSeqs(MaxKeyLen) \ {<<>>}}

\* privateKeyToProtobuf: field 1 (Type, varint, Ed25519 = 1), field 2 (Data, bytes)
privateKeyToProtobuf(k) == <<8, 1, 18, Len(k.raw)>> \o k.raw

\* privateKeyFromProtobuf
privateKeyFromProtobuf(bytes) ==
  IF Len(bytes) >= 4 /\ bytes[1] = 8 /\ bytes[2] = 1 /\ bytes[3] = 18
     /\ bytes[4] = Len(bytes) - 4
  THEN [type |-> "Ed25519", raw |-> SubSeq(bytes, 5, Len(bytes))]
  ELSE NoKey

\* Buffer.toString('base64'): sextets 0..63, 64 stands for the padding '='
RECURSIVE Base64Encode(_)
Base64Encode(bytes) ==
  IF Len(bytes) = 0 THEN <<>>
  ELSE IF Len(bytes) = 1
  THEN <<bytes[1] \div 4, (bytes[1] % 4) * 16, 64, 64>>
  ELSE IF Len(bytes) = 2
  THEN <<bytes[1] \div 4, (bytes[1] % 4) * 16 + bytes[2] \div 16, (bytes[2] % 16) * 4, 64>>
  ELSE <<bytes[1] \div 4, (bytes[1] % 4) * 16 + bytes[2] \div 16,
         (bytes[2] % 16) * 4 + bytes[3] \div 64, bytes[3] % 64>>
         \o Base64Encode(SubSeq(bytes, 4, Len(bytes)))

\* Buffer.from(text, 'base64')
RECURSIVE Base64Decode(_)
Base64Decode(text) ==
  IF Len(text) < 4 THEN <<>>
  ELSE LET a == text[1]
           b == text[2]
           c == text[3]
           d == text[4]
           rest == Base64Decode(SubSeq(text, 5, Len(text)))
       IN IF c = 64 THEN <<a * 4 + b \div 16>>
          ELSE IF d = 64 THEN <<a * 4 + b \div 16, (b % 16) * 16 + c \div 4>>
          ELSE <<a * 4 + b \div 16, (b % 16) * 16 + c \div 4, (c % 4) * 64 + d>> \o rest

\* the file written by loadOrCreatePrivateKey: JSON of {privateKey: base64}
KeyFileOf(k) == <<[privateKey |-> Base64Encode(privateKeyToProtobuf(k))]>>

\* the key read back from the file
KeyInFile(file) == privateKeyFromProtobuf(Base64Decode(file[1].privateKey))

\* node.peerId: derived from the public half of the key
PeerIdOf(k) == [keyType |-> k.type, publicKeyOf |-> k.raw]

\* the generated key is written and used whether or not the file exists
loadOrCreatePrivateKey_AlwaysCreates(file, generated) ==
  [key |-> generated, file |-> KeyFileOf(generated), created |-> TRUE]

\* loadOrCreatePrivateKey: the key to run with and the file afterwards
loadOrCreatePrivateKey(file, generated) ==
  IF file # NoFile
  THEN [key |-> KeyInFile(file), file |-> file, created |-> FALSE]
  ELSE [key |-> generated, file |-> KeyFileOf(generated), created |-> TRUE]

\* start() with config.privateKeyPath set; generated: what generateKeyPair
\* returns if it is called
startNode(generated) ==
  LET r == loadOrCreatePrivateKey(keyFile, generated)
  IN /\ nodeKey = NoKey
     /\ starts < MaxStarts
     /\ nodeKey' = r.key
     /\ keyFile' = r.file
     /\ starts' = starts + 1
     /\ firstKey' = IF starts = 0 THEN r.key ELSE firstKey
     /\ idEv' = [op |-> "start", created |-> r.created]

\* stop(): this.node = null; the key file stays
stopNode ==
  /\ nodeKey # NoKey
  /\ nodeKey' = NoKey
  /\ idEv' = [op |-> "stop", created |-> FALSE]
  /\ UNCHANGED <<keyFile, starts, firstKey>>

Init ==
  /\ now = 0
  /\ peerMetrics = EmptyMap
  /\ ipMetrics = EmptyMap
  /\ blockedIPs = {}
  /\ last = NoOp
  /\ peerCalls = [p \in Peers |-> 0]
  /\ ipCalls = [a \in IPs |-> [all |-> 0, counted |-> 0]]
  /\ run = NoRun
  /\ wsState = [c \in Channels |-> "open"]
  /\ nodeConnections = <<>>
  /\ pendingRequests = EmptyMap
  /\ sent = EmptyMap
  /\ handled = 0
  /\ regOrder = <<>>
  /\ ev = NoEvent
  /\ lastSweep = 0
  /\ admitted = {}
  /\ openConns = [p \in Peers |-> NoOpenConns]
  /\ storageNodes = EmptyMap
  /\ lastCleanup = 0
  /\ dirEv = NoDirEvent
  /\ keyFile = NoFile
  /\ nodeKey = NoKey
  /\ starts = 0
  /\ firstKey = NoKey
  /\ idEv = NoIdEvent

\* history bookkeeping -----------------------------------------------------
InPeerWindow(pm, p, t) ==
  p \in DOMAIN pm /\ t - pm[p].lastConnection < connectionWindowMs

InIPWindow(im, ip, t) ==
  ip \in DOMAIN im /\ t - im[ip].lastConnection < connectionWindowMs

\* calls of allowConnection(p) since the start of p's current connection window
NextPeerCalls(p, pmNew) ==
  IF InPeerWindow(peerMetrics, p, now)
  THEN [peerCalls EXCEPT ![p] = Min(@ + 1, maxConnectionsPerPeer + 2)]
  ELSE IF InPeerWindow(pmNew, p, now)
  THEN [peerCalls EXCEPT ![p] = 1]
  ELSE [peerCalls EXCEPT ![p] = 0]

\* per address: all = calls carrying it, counted = calls that reached checkIPLimit
NextIPCalls(ip, r) ==
  IF ip = NoIP THEN ipCalls
  ELSE LET reached == r.reason \notin {"global", "ipblocked"}
           inc(n) == Min(n + 1, maxConnectionsPerIP + 2)
       IN IF InIPWindow(ipMetrics, ip, now)
          THEN [ipCalls EXCEPT ![ip] =
                  [all |-> inc(@.all),
                   counted |-> IF reached THEN inc(@.counted) ELSE @.counted]]
          ELSE IF reached
          THEN [ipCalls EXCEPT ![ip] = [all |-> 1, counted |-> 1]]
          ELSE ipCalls

NextRun(p, ip, r) ==
  IF ip # NoIP THEN NoRun
  ELSE IF p \notin DOMAIN peerMetrics
  THEN [peer |-> p, start |-> now, res |-> <<r.reason>>]
  ELSE IF run.peer = p /\ now - run.start < connectionWindowMs
          /\ Len(run.res) <= maxConnectionsPerPeer
  THEN [run EXCEPT !.res = Append(@, r.reason)]
  ELSE NoRun

\* ------------------------------------------------------------------------
\* Spec: the RateLimiter as the relay node drives it (no source address),
\* with the manual controls and the sweep, in any interleaving
\* ------------------------------------------------------------------------
AllowConnection(p) ==
  /\ allowConnection(p, NoIP)
  /\ run' = NextRun(p, NoIP, AllowConnectionResult(peerMetrics, ipMetrics, blockedIPs, p, NoIP, now))
  /\ UNCHANGED <<peerCalls, ipCalls, wsVars, nodeVars>>
RecordDisconnection(p) == recordDisconnection(p) /\ run' = NoRun /\ UNCHANGED <<peerCalls, ipCalls, wsVars, nodeVars>>
BlockPeer(p, d) == blockPeer(p, d) /\ run' = NoRun /\ UNCHANGED <<peerCalls, ipCalls, wsVars, nodeVars>>
UnblockPeer(p) == unblockPeer(p) /\ run' = NoRun /\ UNCHANGED <<peerCalls, ipCalls, wsVars, nodeVars>>
Cleanup == cleanup /\ run' = NoRun /\ UNCHANGED <<peerCalls, ipCalls, wsVars, nodeVars>>
Tick ==
  /\ tick
  /\ run' = IF run # NoRun /\ now' - run.start >= connectionWindowMs THEN NoRun ELSE run
  /\ UNCHANGED <<peerCalls, ipCalls, wsVars, nodeVars>>

Next ==
  \/ \E p \in Peers : AllowConnection(p)
  \/ \E p \in Peers : RecordDisconnection(p)
  \/ \E p \in Peers, d \in Durations : BlockPeer(p, d)
  \/ \E p \in Peers : UnblockPeer(p)
  \/ Cleanup
  \/ Tick

Spec == Init /\ [][Next]_vars

\* ------------------------------------------------------------------------
\* SpecPeerWindow: one peer connecting, disconnecting and sending data, with
\* the sweep; counts the peer's allowConnection calls per connection window
\* ------------------------------------------------------------------------
WatchedPeer == "p1"

PWAllowConnection ==
  /\ allowConnection(WatchedPeer, NoIP)
  /\ peerCalls' = NextPeerCalls(WatchedPeer,
        AllowConnectionResult(peerMetrics, ipMetrics, blockedIPs, WatchedPeer, NoIP, now).pm)
  /\ UNCHANGED <<ipCalls, run, wsVars, nodeVars>>
PWRecordDisconnection == recordDisconnection(WatchedPeer) /\ UNCHANGED <<peerCalls, ipCalls, run, wsVars, nodeVars>>
PWTrackBandwidth(b) == trackBandwidth(WatchedPeer, b) /\ UNCHANGED <<peerCalls, ipCalls, run, wsVars, nodeVars>>
PWCleanup == cleanup /\ UNCHANGED <<peerCalls, ipCalls, run, wsVars, nodeVars>>
PWTick == tick /\ UNCHANGED <<peerCalls, ipCalls, run, wsVars, nodeVars>>

NextPeerWindow ==
  \/ PWAllowConnection
  \/ PWRecordDisconnection
  \/ \E b \in ByteCounts : PWTrackBandwidth(b)
  \/ PWCleanup
  \/ PWTick

SpecPeerWindow == Init /\ [][NextPeerWindow]_vars

\* ------------------------------------------------------------------------
\* SpecIP: connections carrying a source address, the address block list,
\* the sweep and time; counts the calls per address window
\* ------------------------------------------------------------------------
IPAllowConnection(p, ip) ==
  /\ allowConnection(p, ip)
  /\ ipCalls' = NextIPCalls(ip, AllowConnectionResult(peerMetrics, ipMetrics, blockedIPs, p, ip, now))
  /\ UNCHANGED <<peerCalls, run, wsVars, nodeVars>>
IPBlockIP(ip) == blockIP(ip) /\ UNCHANGED <<peerCalls, ipCalls, run, wsVars, nodeVars>>
IPUnblockIP(ip) == unblockIP(ip) /\ UNCHANGED <<peerCalls, ipCalls, run, wsVars, nodeVars>>
IPCleanup == cleanup /\ UNCHANGED <<peerCalls, ipCalls, run, wsVars, nodeVars>>
IPTick == tick /\ UNCHANGED <<peerCalls, ipCalls, run, wsVars, nodeVars>>

NextIP ==
  \/ \E p \in Peers, ip \in IPs : IPAllowConnection(p, ip)
  \/ \E ip \in IPs : IPBlockIP(ip)
  \/ \E ip \in IPs : IPUnblockIP(ip)
  \/ IPCleanup
  \/ IPTick

SpecIP == Init /\ [][NextIP]_vars

\* ------------------------------------------------------------------------
\* SpecRelay: the StorageWebSocketRelay handling well-formed messages and
\* backend socket closes (routing, no time passes)
\* ------------------------------------------------------------------------
Register(ws, peerId) == onRegister(ws, peerId) /\ UNCHANGED <<rlVars, nodeVars, lastSweep>>
StorageRequest(ws, r, hasData, target, threw) ==
  onStorageRequest(ws, r, hasData, target, threw) /\ UNCHANGED <<rlVars, nodeVars, lastSweep>>
StorageResponse(ws, r) == onStorageResponse(ws, r) /\ UNCHANGED <<rlVars, nodeVars, lastSweep>>
SocketCloses(ws) == socketCloses(ws) /\ UNCHANGED <<rlVars, nodeVars, lastSweep>>
OnClose(ws) == onClose(ws) /\ UNCHANGED <<rlVars, nodeVars, lastSweep>>
CleanupPendingRequests == cleanupPendingRequests /\ UNCHANGED <<rlVars, nodeVars, lastSweep>>
WsTick == wsTick /\ UNCHANGED <<rlVars, nodeVars, lastSweep>>

NextRelay ==
  \/ \E ws \in BackendChannels, id \in BackendIds : Register(ws, id)
  \/ \E ws \in ClientChannels, r \in ReqIds, target \in BackendIds \cup {NoTarget},
        threw \in BOOLEAN :
       StorageRequest(ws, r, TRUE, target, threw)
  \/ \E ws \in BackendChannels, r \in ReqIds : StorageResponse(ws, r)
  \/ \E ws \in BackendChannels : SocketCloses(ws)
  \/ \E ws \in BackendChannels : OnClose(ws)

SpecRelay == Init /\ [][NextRelay]_vars

\* ------------------------------------------------------------------------
\* SpecTimeout: requests to one backend, with time and the timeout sweep
\* ------------------------------------------------------------------------
TimeoutBackendChannel == "c3"
TimeoutBackendId == "B1"

NextTimeout ==
  \/ Register(TimeoutBackendChannel, TimeoutBackendId)
  \/ \E ws \in ClientChannels, r \in ReqIds, threw \in BOOLEAN :
       StorageRequest(ws, r, TRUE, NoTarget, threw)
  \/ \E r \in ReqIds : StorageResponse(TimeoutBackendChannel, r)
  \/ SocketCloses(TimeoutBackendChannel)
  \/ OnClose(TimeoutBackendChannel)
  \/ CleanupPendingRequests
  \/ WsTick

SpecTimeout == Init /\ [][NextTimeout]_vars

\* ------------------------------------------------------------------------
\* SpecLifecycle: requests of one client while backends register, are
\* replaced and close, with time and the timeout sweep. A request is
\* accepted only while the clock can still pass its timeout.
\* ------------------------------------------------------------------------
LifecycleClient == "c1"

\* the last instant the clock reaches
LastInstant == now + ((WsMaxTime - now) \div WsTickMs) * WsTickMs

TimedStorageRequest(r, target, threw) ==
  /\ LastInstant - now > RequestTimeoutMs
  /\ StorageRequest(LifecycleClient, r, TRUE, target, threw)

NextLifecycle ==
  \/ \E ws \in BackendChannels, id \in BackendIds : Register(ws, id)
  \/ \E r \in ReqIds, threw \in BOOLEAN : TimedStorageRequest(r, NoTarget, threw)
  \/ \E ws \in BackendChannels, r \in ReqIds : StorageResponse(ws, r)
  \/ \E ws \in BackendChannels : SocketCloses(ws)
  \/ \E ws \in BackendChannels : OnClose(ws)
  \/ CleanupPendingRequests
  \/ WsTick

SpecLifecycle == Init /\ [][NextLifecycle]_vars

\* setInterval(() => this.cleanupPendingRequests(), 30000) keeps firing and
\* the clock keeps advancing
SpecLifecycleFair ==
  /\ SpecLifecycle
  /\ WF_vars(CleanupPendingRequests)
  /\ WF_vars(WsTick)

\* ------------------------------------------------------------------------
\* SpecRequestTimer: requests of one client to one backend while the sweep
\* runs as the callback of its interval timer,
\* setInterval(() => this.cleanupPendingRequests(), 30000)
\* ------------------------------------------------------------------------
SweepIntervalMs == 30000
TimerTickMs == 10000
TimerMaxTime == 120000

\* the interval timer fires SweepIntervalMs after it was started / fired
SweepDue == now - lastSweep >= SweepIntervalMs

\* the timer callback
TimerSweep ==
  /\ SweepDue
  /\ cleanupPendingRequests
  /\ lastSweep' = now
  /\ UNCHANGED <<rlVars, nodeVars>>

\* time passes, at most up to the instant the interval timer fires; a due
\* timer callback runs before the clock moves on
TimerTick ==
  /\ ~SweepDue
  /\ now < TimerMaxTime
  /\ now' = Min(Min(now + TimerTickMs, lastSweep + SweepIntervalMs), TimerMaxTime)
  /\ ev' = NoEvent
  /\ UNCHANGED <<wsState, nodeConnections, pendingRequests, sent, handled, regOrder,
                 lastSweep, rlVars, nodeVars>>

NextRequestTimer ==
  \/ Register(TimeoutBackendChannel, TimeoutBackendId)
  \/ \E r \in ReqIds : StorageRequest(LifecycleClient, r, TRUE, NoTarget, FALSE)
  \/ \E r \in ReqIds : StorageResponse(TimeoutBackendChannel, r)
  \/ TimerSweep
  \/ TimerTick

SpecRequestTimer == Init /\ [][NextRequestTimer]_vars

\* ------------------------------------------------------------------------
\* SpecBandwidth: one peer connecting from an address; that peer and a peer
\* the limiter has never seen send data; time passes
\* ------------------------------------------------------------------------
BWAllowConnection(p, ip) == allowConnection(p, ip) /\ UNCHANGED <<peerCalls, ipCalls, run, wsVars, nodeVars>>
BWTrackBandwidth(p, b) == trackBandwidth(p, b) /\ UNCHANGED <<peerCalls, ipCalls, run, wsVars, nodeVars>>
BWTick == tick /\ UNCHANGED <<peerCalls, ipCalls, run, wsVars, nodeVars>>

NextBandwidth ==
  \/ \E ip \in IPs : BWAllowConnection(WatchedPeer, ip)
  \/ \E p \in Peers, b \in ByteCounts : BWTrackBandwidth(p, b)
  \/ BWTick

SpecBandwidth == Init /\ [][NextBandwidth]_vars

\* ------------------------------------------------------------------------
\* SpecSweep: one peer connecting with or without its address, manual
\* blocks of the peer and of the address, the maintenance sweep and time
\* ------------------------------------------------------------------------
SWAllowConnection(ip) == allowConnection(WatchedPeer, ip) /\ UNCHANGED <<peerCalls, ipCalls, run, wsVars, nodeVars>>
SWBlockPeer(d) == blockPeer(WatchedPeer, d) /\ UNCHANGED <<peerCalls, ipCalls, run, wsVars, nodeVars>>
SWBlockIP(ip) == blockIP(ip) /\ UNCHANGED <<peerCalls, ipCalls, run, wsVars, nodeVars>>
SWCleanup == cleanup /\ UNCHANGED <<peerCalls, ipCalls, run, wsVars, nodeVars>>
SWTick == tick /\ UNCHANGED <<peerCalls, ipCalls, run, wsVars, nodeVars>>

NextSweep ==
  \/ \E ip \in IPs \cup {NoIP} : SWAllowConnection(ip)
  \/ \E d \in Durations : SWBlockPeer(d)
  \/ \E ip \in IPs : SWBlockIP(ip)
  \/ SWCleanup
  \/ SWTick

SpecSweep == Init /\ [][NextSweep]_vars

\* ------------------------------------------------------------------------
\* SpecMalformed: well-formed traffic mixed with messages that do not
\* parse, have an unknown type or lack a required field
\* ------------------------------------------------------------------------
ParseErrors == {"Invalid message format", "Unknown message type"}

Malformed(ws, err) == onMalformed(ws, err) /\ UNCHANGED <<rlVars, nodeVars, lastSweep>>

NextMalformed ==
  \/ \E ws \in BackendChannels, id \in BackendIds \cup {NoPeerId} : Register(ws, id)
  \/ \E ws \in ClientChannels, r \in ReqIds \cup {NoReq}, hasData \in BOOLEAN :
       StorageRequest(ws, r, hasData, NoTarget, FALSE)
  \/ \E ws \in BackendChannels, r \in ReqIds : StorageResponse(ws, r)
  \/ \E ws \in Channels, err \in ParseErrors : Malformed(ws, err)
  \/ \E ws \in BackendChannels : SocketCloses(ws)
  \/ \E ws \in BackendChannels : OnClose(ws)

SpecMalformed == Init /\ [][NextMalformed]_vars

\* ------------------------------------------------------------------------
\* SpecManualBlock: one peer's connections, manual blocks with an absent, a
\* positive and a negative durationMs (the parameter is any number),
\* unblocks, and time
\* ------------------------------------------------------------------------
NegativeDuration == -1000
SuppliedDurations == Durations \cup {NegativeDuration}

MBAllowConnection(p) == allowConnection(p, NoIP) /\ UNCHANGED <<peerCalls, ipCalls, run, wsVars, nodeVars>>
MBBlockPeer(p, d) == blockPeer(p, d) /\ UNCHANGED <<peerCalls, ipCalls, run, wsVars, nodeVars>>
MBUnblockPeer(p) == unblockPeer(p) /\ UNCHANGED <<peerCalls, ipCalls, run, wsVars, nodeVars>>
MBTick == tick /\ UNCHANGED <<peerCalls, ipCalls, run, wsVars, nodeVars>>

NextManualBlock ==
  \/ MBAllowConnection(WatchedPeer)
  \/ \E d \in SuppliedDurations : MBBlockPeer(WatchedPeer, d)
  \/ MBUnblockPeer(WatchedPeer)
  \/ MBTick

SpecManualBlock == Init /\ [][NextManualBlock]_vars

\* ------------------------------------------------------------------------
\* SpecNode: the relay node's peer:connect / peer:disconnect listeners
\* driving the RateLimiter, next to the StorageWebSocketRelay serving its
\* sockets. The socket handlers make no call to the RateLimiter.
\* ------------------------------------------------------------------------
\* peer:connect: allowConnection(peerId); a denied peer is only counted
PeerConnect(p) ==
  /\ allowConnection(p, NoIP)
  /\ admitted' =
       IF AllowConnectionResult(peerMetrics, ipMetrics, blockedIPs, p, NoIP, now).allowed
       THEN admitted \cup {p} ELSE admitted \ {p}
  /\ UNCHANGED <<peerCalls, ipCalls, run, wsVars, openConns, dirVars, keyVars>>

\* peer:disconnect: recordDisconnection(peerId)
PeerDisconnect(p) ==
  /\ recordDisconnection(p)
  /\ admitted' = admitted \ {p}
  /\ UNCHANGED <<peerCalls, ipCalls, run, wsVars, openConns, dirVars, keyVars>>

NextNode ==
  \/ \E p \in BackendIds : PeerConnect(p)
  \/ \E p \in BackendIds : PeerDisconnect(p)
  \/ \E ws \in BackendChannels, id \in BackendIds : Register(ws, id)
  \/ \E r \in ReqIds : StorageRequest(LifecycleClient, r, TRUE, NoTarget, FALSE)
  \/ \E ws \in BackendChannels, r \in ReqIds : StorageResponse(ws, r)

SpecNode == Init /\ [][NextNode]_vars

\* ------------------------------------------------------------------------
\* SpecConnections: the connections of one peer opening and closing, each
\* peer:connect and peer:disconnect event handled by the relay node's
\* listeners; time passes. A peer:disconnect is the close of a connection
\* that is open, whatever its peer:connect evaluation was: a denied
\* connection stays established.
\* ------------------------------------------------------------------------
MaxOpenConnections == 4
ConnectionKinds == {"cur", "old", "denied"}

OpenCount(oc) == oc.cur + oc.old + oc.denied

\* peer:connect for a new connection of p
ConnOpens(p) ==
  LET r == AllowConnectionResult(peerMetrics, ipMetrics, blockedIPs, p, NoIP, now)
      oc == openConns[p]
  IN /\ OpenCount(oc) < MaxOpenConnections
     /\ allowConnection(p, NoIP)
     /\ admitted' = IF r.allowed THEN admitted \cup {p} ELSE admitted \ {p}
     /\ openConns' =
          [openConns EXCEPT ![p] =
             IF ~r.allowed THEN [oc EXCEPT !.denied = @ + 1]
             ELSE IF InPeerWindow(peerMetrics, p, now)
             THEN [oc EXCEPT !.cur = @ + 1]
             ELSE [cur |-> 1, old |-> oc.old + oc.cur, denied |-> oc.denied]]
     /\ UNCHANGED <<peerCalls, ipCalls, run, wsVars, dirVars, keyVars>>

\* peer:disconnect for an open connection of p of the given kind
ConnCloses(p, kind) ==
  /\ openConns[p][kind] > 0
  /\ recordDisconnection(p)
  /\ admitted' = admitted \ {p}
  /\ openConns' = [openConns EXCEPT ![p][kind] = @ - 1]
  /\ UNCHANGED <<peerCalls, ipCalls, run, wsVars, dirVars, keyVars>>

ConnTick == tick /\ UNCHANGED <<peerCalls, ipCalls, run, wsVars, nodeVars>>

NextConnections ==
  \/ ConnOpens(WatchedPeer)
  \/ \E kind \in ConnectionKinds : ConnCloses(WatchedPeer, kind)
  \/ ConnTick

SpecConnections == Init /\ [][NextConnections]_vars

\* ------------------------------------------------------------------------
\* SpecDirectory: announcements, directory requests, the stale-node timer
\* ------------------------------------------------------------------------
OnAnnouncement(from, kind) ==
  onAnnouncement(from, kind) /\ UNCHANGED <<rlVars, wsVars, admitted, openConns, keyVars>>
CleanupStaleNodes == cleanupStaleNodes /\ UNCHANGED <<rlVars, wsVars, admitted, openConns, keyVars>>
HandlePeerDirectory == handlePeerDirectory /\ UNCHANGED <<rlVars, wsVars, admitted, openConns, keyVars>>
DirTick == dirTick /\ UNCHANGED <<rlVars, wsVars, admitted, openConns, keyVars>>

NextDirectory ==
  \/ \E from \in DirNodes, kind \in AnnouncementKinds : OnAnnouncement(from, kind)
  \/ CleanupStaleNodes
  \/ HandlePeerDirectory
  \/ DirTick

SpecDirectory == Init /\ [][NextDirectory]_vars

\* ------------------------------------------------------------------------
\* SpecAllOps: every public operation of the RateLimiter on one peer and
\* one address, in any interleaving
\* ------------------------------------------------------------------------
AllOpsBytes == 131072

AOAllowConnection(ip) == allowConnection(WatchedPeer, ip) /\ UNCHANGED <<peerCalls, ipCalls, run, wsVars, nodeVars>>
AORecordDisconnection == recordDisconnection(WatchedPeer) /\ UNCHANGED <<peerCalls, ipCalls, run, wsVars, nodeVars>>
AOTrackBandwidth == trackBandwidth(WatchedPeer, AllOpsBytes) /\ UNCHANGED <<peerCalls, ipCalls, run, wsVars, nodeVars>>
AOBlockPeer(d) == blockPeer(WatchedPeer, d) /\ UNCHANGED <<peerCalls, ipCalls, run, wsVars, nodeVars>>
AOUnblockPeer == unblockPeer(WatchedPeer) /\ UNCHANGED <<peerCalls, ipCalls, run, wsVars, nodeVars>>
AOBlockIP(ip) == blockIP(ip) /\ UNCHANGED <<peerCalls, ipCalls, run, wsVars, nodeVars>>
AOUnblockIP(ip) == unblockIP(ip) /\ UNCHANGED <<peerCalls, ipCalls, run, wsVars, nodeVars>>
AOCleanup == cleanup /\ UNCHANGED <<peerCalls, ipCalls, run, wsVars, nodeVars>>
AOTick == tick /\ UNCHANGED <<peerCalls, ipCalls, run, wsVars, nodeVars>>

NextAllOps ==
  \/ \E ip \in IPs \cup {NoIP} : AOAllowConnection(ip)
  \/ AORecordDisconnection
  \/ AOTrackBandwidth
  \/ \E d \in Durations : AOBlockPeer(d)
  \/ AOUnblockPeer
  \/ \E ip \in IPs : AOBlockIP(ip)
  \/ \E ip \in IPs : AOUnblockIP(ip)
  \/ AOCleanup
  \/ AOTick

SpecAllOps == Init /\ [][NextAllOps]_vars

\* ------------------------------------------------------------------------
\* SpecIdentity: stop/start cycles of a relay node with a key path
\* ------------------------------------------------------------------------
StartNode(generated) ==
  startNode(generated) /\ UNCHANGED <<now, rlVars, wsVars, admitted, openConns, dirVars>>
StopNode == stopNode /\ UNCHANGED <<now, rlVars, wsVars, admitted, openConns, dirVars>>

NextIdentity ==
  \/ \E generated \in GeneratedKeys : StartNode(generated)
  \/ StopNode

SpecIdentity == Init /\ [][NextIdentity]_vars

\* ------------------------------------------------------------------------
\* Properties of the RateLimiter
\* ------------------------------------------------------------------------
IsCall(l, p) == l.op = "allowConnection" /\ l.peer = p

\* C1 (as claimed): the allowConnection call numbered maxConnectionsPerPeer+1
\* in a peer's connection window is denied and leaves the peer blocked until
\* the time of the call plus blockDurationMs, whatever is interleaved.
C1_NthCallDeniedAndBlocked ==
  \A p \in Peers :
    (IsCall(last, p) /\ peerCalls[p] = maxConnectionsPerPeer + 1) =>
      /\ ~last.allowed
      /\ p \in DOMAIN peerMetrics
      /\ peerMetrics[p].blocked
      /\ peerMetrics[p].blockedUntil = now + blockDurationMs

RunPattern ==
  /\ \A i \in 1..Len(run.res) :
       /\ i <= maxConnectionsPerPeer => run.res[i] = ""
       /\ i = maxConnectionsPerPeer + 1 => run.res[i] = "rate"
  /\ Len(run.res) = maxConnectionsPerPeer + 1 =>
       /\ run.peer \in DOMAIN peerMetrics
       /\ peerMetrics[run.peer].blocked

\* C2 (as claimed): for a previously unseen peer, consecutive calls inside one
\* window are allowed up to the per-peer limit, call limit+1 is denied for
\* the rate and the peer is blocked afterwards.
C2_Original == run # NoRun => RunPattern

RunHasNoGlobalDenial == \A i \in 1..Len(run.res) : run.res[i] # "global"

\* C2 (amended): for a previously unseen peer, consecutive allowConnection
\* calls inside one window, none of them denied by the global connection
\* limit, are allowed up to the per-peer limit; call limit+1 is denied for
\* the rate and the peer is blocked afterwards.
C2_ConsecutiveCalls == (run # NoRun /\ RunHasNoGlobalDenial) => RunPattern

C2_Witness ==
  /\ Len(run.res) = maxConnectionsPerPeer + 1
  /\ RunHasNoGlobalDenial
  /\ now > run.start

ExpiredBlock(p) ==
  /\ p \in DOMAIN peerMetrics
  /\ peerMetrics[p].blocked
  /\ now >= peerMetrics[p].blockedUntil

AllowedWithCountOne(p) ==
  /\ last'.allowed
  /\ ~peerMetrics'[p].blocked
  /\ peerMetrics'[p].connections = 1

\* C3 (as claimed): a call for a blocked peer at or past blockedUntil is
\* allowed, clears the flag and leaves the connection count at exactly 1.
C3_Original ==
  [][\A p \in Peers : (IsCall(last', p) /\ ExpiredBlock(p)) => AllowedWithCountOne(p)]_vars

\* C3 (amended): a call for a blocked peer at or past blockedUntil, unless
\* it is denied by the global limit or by an address check before the peer's
\* state is looked at, is allowed, clears the flag and leaves the count at 1.
C3_ExpiredBlockAllows ==
  [][\A p \in Peers :
       (IsCall(last', p) /\ ExpiredBlock(p)
          /\ last'.reason \notin {"global", "ipblocked", "iplimit"})
       => AllowedWithCountOne(p)]_vars

\* the expiry happened inside the connection window in which the count stood at the limit
C3_Witness ==
  /\ last.op = "allowConnection"
  /\ last.expired
  /\ last.allowed
  /\ peerMetrics[last.peer].connections = 1
  /\ peerMetrics[last.peer].lastConnection < now

BlockedAddressStays(a) ==
  /\ (a \in blockedIPs /\ last'.op = "allowConnection" /\ last'.ip = a) => ~last'.allowed
  /\ (a \in blockedIPs /\ a \notin blockedIPs') => (last'.op = "unblockIP" /\ last'.ip = a)

\* C4 (as claimed): an address that issued more than maxConnectionsPerIP
\* connections inside one window is in the blocked set; a blocked address is
\* denied on every call; only unblockIP removes an address from the set.
C4_Original ==
  [][\A a \in IPs :
       /\ (last'.op = "allowConnection" /\ last'.ip = a
             /\ ipCalls'[a].all > maxConnectionsPerIP) => a \in blockedIPs'
       /\ BlockedAddressStays(a)]_vars

\* C4 (amended): once more than maxConnectionsPerIP connections of an
\* address reached the IP window check inside one window (those denied by
\* the global limit are not counted) the address is in the blocked set; a
\* blocked address is denied on every call; only unblockIP removes it.
C4_AddressBlockPermanent ==
  [][\A a \in IPs :
       /\ (last'.op = "allowConnection" /\ last'.ip = a /\ last'.reason # "global"
             /\ ipCalls'[a].counted > maxConnectionsPerIP)
            => (a \in blockedIPs' /\ ~last'.allowed)
       /\ BlockedAddressStays(a)]_vars

\* a blocked address is still denied after its IPState was swept
C4_Witness ==
  \E a \in IPs :
    /\ a \in blockedIPs
    /\ a \notin DOMAIN ipMetrics
    /\ ipCalls[a].counted > maxConnectionsPerIP
    /\ last.op = "allowConnection" /\ last.ip = a /\ last.reason = "ipblocked"

RecentPeers == {q \in DOMAIN peerMetrics : now - peerMetrics[q].lastConnection < connectionWindowMs}

\* C5: when at least globalMaxConnections peers have a window start within
\* the connection window of now, allowConnection denies for every peer and
\* every address.
C5_GlobalLimitDenies ==
  [][(last'.op = "allowConnection" /\ Cardinality(RecentPeers) >= globalMaxConnections)
       => ~last'.allowed]_vars

\* denied although the peer is tracked, unblocked and under its own limit
C5_Witness ==
  /\ last.op = "allowConnection"
  /\ last.reason = "global"
  /\ last.peer \in DOMAIN peerMetrics
  /\ ~peerMetrics[last.peer].blocked
  /\ peerMetrics[last.peer].connections < maxConnectionsPerPeer
  /\ last.ip \in DOMAIN ipMetrics
  /\ ipMetrics[last.ip].connections < maxConnectionsPerIP

\* C17: for a peer with a PeerState, trackBandwidth first resets the
\* accumulator (and the window start) when at least 1000 ms passed since
\* the window start, then adds the byte count, and denies exactly when the
\* accumulated bytes exceed maxBandwidthPerPeerMbps*1024*1024/8; a total
\* equal to that ceiling is allowed.
C17_BandwidthCeiling ==
  [][\A p \in Peers :
       (last'.op = "trackBandwidth" /\ last'.peer = p /\ p \in DOMAIN peerMetrics) =>
         LET m == peerMetrics[p]
             elapsed == now - m.lastBandwidthReset >= 1000
             total == (IF elapsed THEN 0 ELSE m.bandwidth) + last'.bytes
         IN /\ peerMetrics'[p].bandwidth = total
            /\ peerMetrics'[p].lastBandwidthReset =
                 IF elapsed THEN now ELSE m.lastBandwidthReset
            /\ last'.allowed <=> total <= (maxBandwidthPerPeerMbps * 1024 * 1024) \div 8]_vars

\* in a window opened by a reset, a second call brings the total exactly to
\* the ceiling and is allowed
C17_Witness ==
  /\ last.op = "trackBandwidth"
  /\ last.allowed
  /\ last.bytes = 65536
  /\ last.peer \in DOMAIN peerMetrics
  /\ peerMetrics[last.peer].bandwidth = MaxBytesPerSecond
  /\ peerMetrics[last.peer].lastBandwidthReset > peerMetrics[last.peer].lastConnection

\* C18: trackBandwidth creates and removes no PeerState, leaves every
\* peer's connection count, window start, blocked flag and block expiry,
\* every IPState and the blocked-address set unchanged, and for a peer
\* without a PeerState returns allow and changes nothing.
C18_BandwidthFrame ==
  [][last'.op = "trackBandwidth" =>
       /\ DOMAIN peerMetrics' = DOMAIN peerMetrics
       /\ \A q \in DOMAIN peerMetrics :
            /\ peerMetrics'[q].connections = peerMetrics[q].connections
            /\ peerMetrics'[q].lastConnection = peerMetrics[q].lastConnection
            /\ peerMetrics'[q].blocked = peerMetrics[q].blocked
            /\ peerMetrics'[q].blockedUntil = peerMetrics[q].blockedUntil
            /\ q # last'.peer => peerMetrics'[q] = peerMetrics[q]
       /\ ipMetrics' = ipMetrics
       /\ blockedIPs' = blockedIPs
       /\ last'.peer \notin DOMAIN peerMetrics =>
            (last'.allowed /\ peerMetrics' = peerMetrics)]_vars

\* data of a peer without a PeerState is allowed while another peer is
\* blocked and an address is blocked
C18_Witness ==
  /\ last.op = "trackBandwidth"
  /\ last.allowed
  /\ last.peer \notin DOMAIN peerMetrics
  /\ blockedIPs # {}
  /\ ipMetrics # EmptyMap
  /\ \E q \in DOMAIN peerMetrics : peerMetrics[q].blocked

\* C19: recordDisconnection(P) lowers P's connection count by one when it
\* is positive and leaves it at 0 otherwise; it keeps P's PeerState with its
\* blocked flag, block expiry, window start and bandwidth fields, touches no
\* other peer, and changes nothing for a peer without a PeerState.
C19_DisconnectionFrame ==
  [][\A p \in Peers :
       (last'.op = "recordDisconnection" /\ last'.peer = p) =>
         /\ DOMAIN peerMetrics' = DOMAIN peerMetrics
         /\ \A q \in DOMAIN peerMetrics : q # p => peerMetrics'[q] = peerMetrics[q]
         /\ p \in DOMAIN peerMetrics =>
              /\ peerMetrics'[p].connections =
                   IF peerMetrics[p].connections > 0
                   THEN peerMetrics[p].connections - 1 ELSE 0
              /\ peerMetrics'[p] =
                   [peerMetrics[p] EXCEPT !.connections = peerMetrics'[p].connections]
         /\ ipMetrics' = ipMetrics
         /\ blockedIPs' = blockedIPs]_vars

\* a blocked peer's count went from the limit to one below it; the block stays
C19_Witness ==
  /\ last.op = "recordDisconnection"
  /\ last.peer \in DOMAIN peerMetrics
  /\ peerMetrics[last.peer].blocked
  /\ now < peerMetrics[last.peer].blockedUntil
  /\ peerMetrics[last.peer].connections = maxConnectionsPerPeer - 1

\* C20: blockPeer without a duration sets blocked = true and blockedUntil =
\* now + blockDurationMs, creating the PeerState of an unseen peer and
\* leaving the other fields of a known one; while a peer is blocked and now
\* is before blockedUntil every allowConnection for it is denied and leaves
\* its PeerState as it is.
C20_ManualBlockDefault ==
  [][\A p \in Peers :
       /\ (last'.op = "blockPeer" /\ last'.peer = p /\ last'.durationMs = NoDuration) =>
            LET m0 == IF p \in DOMAIN peerMetrics THEN peerMetrics[p]
                      ELSE [connections |-> 0, lastConnection |-> now, bandwidth |-> 0,
                            lastBandwidthReset |-> now, blocked |-> FALSE, blockedUntil |-> 0]
            IN /\ p \in DOMAIN peerMetrics'
               /\ peerMetrics'[p] =
                    [m0 EXCEPT !.blocked = TRUE, !.blockedUntil = now + blockDurationMs]
       /\ (IsCall(last', p) /\ p \in DOMAIN peerMetrics /\ peerMetrics[p].blocked
             /\ now < peerMetrics[p].blockedUntil) =>
            /\ ~last'.allowed
            /\ peerMetrics'[p] = peerMetrics[p]]_vars

\* a peer that never connected is denied for its block, after time passed
\* since the block was set with the default duration
C20_Witness ==
  /\ last.op = "allowConnection"
  /\ last.reason = "peerblocked"
  /\ peerMetrics[last.peer].connections = 0
  /\ peerMetrics[last.peer].blockedUntil = peerMetrics[last.peer].lastConnection + blockDurationMs
  /\ now > peerMetrics[last.peer].lastConnection

\* getStats, lines 265-266: m.blocked && now < m.blockedUntil
CurrentlyBlocked(m, t) == m.blocked /\ t < m.blockedUntil

\* C21 (as claimed): the sweep removes exactly the PeerStates that are not
\* currently blocked (no block whose expiry is still in the future) and
\* whose window start is older than 2*connectionWindowMs, and exactly the
\* IPStates older than that; everything that stays is unchanged.
C21_SweepRemovesIdle ==
  [][last'.op = "cleanup" =>
       /\ DOMAIN peerMetrics' =
            {p \in DOMAIN peerMetrics :
               ~(~CurrentlyBlocked(peerMetrics[p], now)
                   /\ now - peerMetrics[p].lastConnection > 2 * connectionWindowMs)}
       /\ \A p \in DOMAIN peerMetrics' : peerMetrics'[p] = peerMetrics[p]
       /\ DOMAIN ipMetrics' =
            {a \in DOMAIN ipMetrics :
               ~(now - ipMetrics[a].lastConnection > 2 * connectionWindowMs)}
       /\ \A a \in DOMAIN ipMetrics' : ipMetrics'[a] = ipMetrics[a]
       /\ blockedIPs' = blockedIPs]_vars

\* the sweep left a PeerState whose block expired and that has been idle
\* for more than twice the window
C21_ExpiredBlockKept ==
  /\ last.op = "cleanup"
  /\ \E p \in DOMAIN peerMetrics :
       /\ peerMetrics[p].blocked
       /\ now >= peerMetrics[p].blockedUntil
       /\ now - peerMetrics[p].lastConnection > 2 * connectionWindowMs

\* C22: the sweep keeps every PeerState whose blocked flag is set, with its
\* flag, its expiry and its other fields as they are, changes no PeerState
\* it keeps and leaves the blocked-address set as it is; a peer that is
\* blocked with the expiry ahead is therefore still refused after the sweep.
C22_SweepKeepsBlocks ==
  [][/\ last'.op = "cleanup" =>
          /\ \A p \in DOMAIN peerMetrics :
               peerMetrics[p].blocked =>
                 (p \in DOMAIN peerMetrics' /\ peerMetrics'[p] = peerMetrics[p])
          /\ \A p \in DOMAIN peerMetrics' :
               p \in DOMAIN peerMetrics /\ peerMetrics'[p] = peerMetrics[p]
          /\ blockedIPs' = blockedIPs
     /\ \A p \in Peers :
          (last.op = "cleanup" /\ IsCall(last', p) /\ p \in DOMAIN peerMetrics
             /\ CurrentlyBlocked(peerMetrics[p], now)) => ~last'.allowed]_vars

\* right after a sweep, a peer idle for more than twice the window is
\* refused for its block, and the address blocked before the sweep still is
C22_Witness ==
  /\ last.op = "allowConnection"
  /\ last.reason = "peerblocked"
  /\ now < peerMetrics[last.peer].blockedUntil
  /\ now - peerMetrics[last.peer].lastConnection > 2 * connectionWindowMs
  /\ blockedIPs # {}

\* a PeerState of p with the blocked flag set expires after its window start
ExpiryAfterWindowStart(pm, p) ==
  (p \in DOMAIN pm /\ pm[p].blocked) => pm[p].blockedUntil > pm[p].lastConnection

\* C27 (as claimed): every PeerState with blocked = true has a block expiry
\* strictly greater than its window start, whatever duration a manual
\* block was given.
C27_Original ==
  \A p \in Peers : ExpiryAfterWindowStart(peerMetrics, p)

\* C27 (amended): every step other than a manual block with a negative
\* duration keeps 'blocked implies expiry > window start' for every peer;
\* it holds initially, hence in every state reached without such a block.
C27_ExpiryAfterWindowStart ==
  [][~(last'.op = "blockPeer" /\ last'.durationMs < 0) =>
       \A p \in Peers :
         ExpiryAfterWindowStart(peerMetrics, p) => ExpiryAfterWindowStart(peerMetrics', p)]_vars

\* a manual block of 1000 ms on a peer whose window started at this instant,
\* after an earlier block of the peer expired
C27_Witness ==
  /\ last.op = "blockPeer"
  /\ last.durationMs = 1000
  /\ now > 0
  /\ peerMetrics[last.peer].blocked
  /\ peerMetrics[last.peer].lastConnection = now
  /\ peerMetrics[last.peer].blockedUntil = now + 1000

\* a manual block with a negative duration: the flag is set and the expiry
\* is not after the window start
C27_NegativeDurationBlock ==
  /\ last.op = "blockPeer"
  /\ last.durationMs < 0
  /\ peerMetrics[last.peer].blocked
  /\ peerMetrics[last.peer].blockedUntil <= peerMetrics[last.peer].lastConnection

\* the five conditions of allowConnection, read off the state before the call
GlobalFails(pm, t) ==
  Cardinality({q \in DOMAIN pm : t - pm[q].lastConnection < connectionWindowMs})
    >= globalMaxConnections
AddressFails(bl, ip) == ip # NoIP /\ ip \in bl
IPWindowFails(im, ip, t) ==
  /\ ip # NoIP
  /\ ip \in DOMAIN im
  /\ t - im[ip].lastConnection < connectionWindowMs
  /\ im[ip].connections >= maxConnectionsPerIP
PeerBlockFails(pm, p, t) ==
  p \in DOMAIN pm /\ pm[p].blocked /\ t < pm[p].blockedUntil
PeerRateFails(pm, p, t) ==
  /\ p \in DOMAIN pm
  /\ t - pm[p].lastConnection < connectionWindowMs
  /\ (IF pm[p].blocked THEN 0 ELSE pm[p].connections) >= maxConnectionsPerPeer

\* C28: the result of an evaluation is decided by the first failing check
\* in the order global limit, blocked address, IP window, peer block, peer
\* rate (allowed when none fails); a denial by the global limit or by the
\* blocked-address check leaves peerMetrics, ipMetrics and blockedIPs
\* unchanged.
C28_FirstFailingCheckDecides ==
  [][last'.op = "allowConnection" =>
       /\ last'.reason =
            IF GlobalFails(peerMetrics, now) THEN "global"
            ELSE IF AddressFails(blockedIPs, last'.ip) THEN "ipblocked"
            ELSE IF IPWindowFails(ipMetrics, last'.ip, now) THEN "iplimit"
            ELSE IF PeerBlockFails(peerMetrics, last'.peer, now) THEN "peerblocked"
            ELSE IF PeerRateFails(peerMetrics, last'.peer, now) THEN "rate"
            ELSE ""
       /\ last'.allowed = (last'.reason = "")
       /\ last'.reason \in {"global", "ipblocked"} =>
            /\ peerMetrics' = peerMetrics
            /\ ipMetrics' = ipMetrics
            /\ blockedIPs' = blockedIPs]_vars

\* denied by the global limit although the address is blocked, the address
\* is at its limit inside its window and the peer is blocked
C28_Witness ==
  /\ last.op = "allowConnection"
  /\ last.reason = "global"
  /\ AddressFails(blockedIPs, last.ip)
  /\ IPWindowFails(ipMetrics, last.ip, now)
  /\ PeerBlockFails(peerMetrics, last.peer, now)

\* denied by the blocked address of a peer without PeerState
C28_AddressBeforePeer ==
  /\ last.op = "allowConnection"
  /\ last.reason = "ipblocked"
  /\ last.peer \notin DOMAIN peerMetrics

\* denied by the peer's block after the address's window was reset
C28_PeerBlockAfterIPWindow ==
  /\ last.op = "allowConnection"
  /\ last.reason = "peerblocked"
  /\ ipMetrics[last.ip].lastConnection = now
  /\ now > 0

\* the peer's metrics an evaluation starts from
MetricsBefore(pm, p, t) == IF p \in DOMAIN pm THEN pm[p] ELSE NewPeerMetrics(t)

\* C29 (as claimed): an allowed evaluation increments the peer's count by
\* exactly one and keeps the window start when the window has not elapsed,
\* and sets the count to 1 and the window start to now when it has.
C29_Original ==
  [][(last'.op = "allowConnection" /\ last'.allowed) =>
       LET p == last'.peer
           m == MetricsBefore(peerMetrics, p, now)
       IN IF now - m.lastConnection < connectionWindowMs
          THEN /\ peerMetrics'[p].connections = m.connections + 1
               /\ peerMetrics'[p].lastConnection = m.lastConnection
          ELSE /\ peerMetrics'[p].connections = 1
               /\ peerMetrics'[p].lastConnection = now]_vars

\* C29 (amended): an allowed evaluation inside the window keeps the window
\* start and makes the count one more than the count it starts from, which
\* is 0 when the call clears an expired block (and for a peer without
\* PeerState); when the window has elapsed the count becomes 1 and the
\* window start now.
C29_CountAfterAllow ==
  [][(last'.op = "allowConnection" /\ last'.allowed) =>
       LET p == last'.peer
           m == MetricsBefore(peerMetrics, p, now)
           c == IF m.blocked THEN 0 ELSE m.connections
       IN IF now - m.lastConnection < connectionWindowMs
          THEN /\ peerMetrics'[p].connections = c + 1
               /\ peerMetrics'[p].lastConnection = m.lastConnection
          ELSE /\ peerMetrics'[p].connections = 1
               /\ peerMetrics'[p].lastConnection = now]_vars

\* a peer that had a PeerState before this instant is allowed in a new
\* window: count 1, window start now
C29_Witness ==
  /\ last.op = "allowConnection"
  /\ last.allowed
  /\ ~last.expired
  /\ peerMetrics[last.peer].connections = 1
  /\ peerMetrics[last.peer].lastConnection = now
  /\ peerMetrics[last.peer].lastBandwidthReset < now

\* an allowed call cleared an expired block inside the window
C29_ExpiredInsideWindow ==
  /\ last.op = "allowConnection"
  /\ last.allowed
  /\ last.expired
  /\ peerMetrics[last.peer].connections = 1
  /\ peerMetrics[last.peer].lastConnection < now
  /\ now - peerMetrics[last.peer].lastConnection < connectionWindowMs

\* C30: an evaluation that reaches the IP window check (global limit not
\* reached, address not blocked) is not denied by it when the address has
\* no IPState, and the IPState is created with count 1 and window start
\* now; when connectionWindowMs has elapsed since the address's window
\* start it is not denied by it either, and the IPState has count 1, window
\* start now and an empty peer set, whatever the count was.
C30_IPWindowStartsAndResets ==
  [][(/\ last'.op = "allowConnection"
      /\ last'.ip # NoIP
      /\ last'.ip \notin blockedIPs
      /\ ~GlobalFails(peerMetrics, now)
      /\ \/ last'.ip \notin DOMAIN ipMetrics
         \/ now - ipMetrics[last'.ip].lastConnection >= connectionWindowMs) =>
       /\ last'.reason # "iplimit"
       /\ last'.ip \in DOMAIN ipMetrics'
       /\ ipMetrics'[last'.ip] = [connections |-> 1, lastConnection |-> now, peerIds |-> {}]
       /\ blockedIPs' = blockedIPs]_vars

\* the address's window was reset at 2000 although a peer blocked for its
\* third call from the address shows the old window had reached the limit
C30_Witness ==
  /\ last.op = "allowConnection"
  /\ last.ip # NoIP
  /\ last.ip \notin blockedIPs
  /\ now = 2 * TickMs
  /\ ipMetrics[last.ip] = [connections |-> 1, lastConnection |-> now, peerIds |-> {}]
  /\ \E p \in DOMAIN peerMetrics :
       /\ peerMetrics[p].blocked
       /\ now - peerMetrics[p].lastConnection >= connectionWindowMs

\* C33: every PeerState connection count is in 0..maxConnectionsPerPeer
\* and every IPState connection count is in 1..maxConnectionsPerIP, in
\* every reachable state.
C33_CountsInRange ==
  /\ \A p \in DOMAIN peerMetrics :
       peerMetrics[p].connections \in 0..maxConnectionsPerPeer
  /\ \A a \in DOMAIN ipMetrics :
       ipMetrics[a].connections \in 1..maxConnectionsPerIP

\* both counts are at their maximum: the call that filled the address's
\* last slot was denied for the peer's rate
C33_Witness ==
  /\ last.op = "allowConnection"
  /\ last.reason = "rate"
  /\ last.ip \in DOMAIN ipMetrics
  /\ last.peer \in DOMAIN peerMetrics
  /\ peerMetrics[last.peer].connections = maxConnectionsPerPeer
  /\ ipMetrics[last.ip].connections = maxConnectionsPerIP

\* the count is back at 0 after disconnections, the address unblocked with
\* its count still at the maximum
C33_DisconnectedToZero ==
  /\ last.op = "unblockIP"
  /\ \E p \in DOMAIN peerMetrics : peerMetrics[p].connections = 0 /\ ~peerMetrics[p].blocked
  /\ last.ip \in DOMAIN ipMetrics
  /\ ipMetrics[last.ip].connections = maxConnectionsPerIP

\* the connection count of a peer / an address, 0 without a state
PeerCount(pm, p) == IF p \in DOMAIN pm THEN pm[p].connections ELSE 0
IPCount(im, a) == IF a \in DOMAIN im THEN im[a].connections ELSE 0

\* C34 (as claimed): after a denied evaluation neither the peer's count nor
\* the address's count is higher than before the call.
C34_Original ==
  [][(last'.op = "allowConnection" /\ ~last'.allowed) =>
       /\ PeerCount(peerMetrics', last'.peer) <= PeerCount(peerMetrics, last'.peer)
       /\ IPCount(ipMetrics', last'.ip) <= IPCount(ipMetrics, last'.ip)]_vars

\* C34 (amended): a denied evaluation never raises the peer's count; it
\* leaves ipMetrics unchanged when the denial is by the global limit, the
\* blocked address or the IP window; a denial by the peer's block or the
\* peer's rate comes after the IP window check, which has counted the call
\* for the address (count + 1 inside the window, 1 for a new address or an
\* elapsed window).
C34_DeniedCounters ==
  [][(last'.op = "allowConnection" /\ ~last'.allowed) =>
       LET p == last'.peer
           a == last'.ip
       IN /\ PeerCount(peerMetrics', p) <= PeerCount(peerMetrics, p)
          /\ last'.reason \in {"global", "ipblocked", "iplimit"} => ipMetrics' = ipMetrics
          /\ (last'.reason \in {"peerblocked", "rate"} /\ a # NoIP) =>
               /\ a \in DOMAIN ipMetrics'
               /\ ipMetrics'[a].connections =
                    IF a \in DOMAIN ipMetrics
                       /\ now - ipMetrics[a].lastConnection < connectionWindowMs
                    THEN ipMetrics[a].connections + 1
                    ELSE 1]_vars

\* a call denied for the peer's rate took the address's last slot
C34_Witness ==
  /\ last.op = "allowConnection"
  /\ last.reason = "rate"
  /\ last.ip \in DOMAIN ipMetrics
  /\ ipMetrics[last.ip].connections = maxConnectionsPerIP
  /\ ipMetrics[last.ip].lastConnection < now
  /\ last.ip \notin blockedIPs

\* the address was blocked for exceeding its limit by calls of which one
\* was denied for the peer's rate: fewer than maxConnectionsPerIP
\* connections of the window were allowed
C34_AddressBlockedByDeniedCalls ==
  /\ last.op = "allowConnection"
  /\ last.reason = "iplimit"
  /\ last.ip \in blockedIPs
  /\ \E p \in DOMAIN peerMetrics :
       peerMetrics[p].blocked /\ now - peerMetrics[p].lastConnection < connectionWindowMs

\* C38 (as claimed): a manual unblock that lifts a block takes effect at
\* once. The call of allowConnection that directly follows unblockIP(a) with
\* address a is not denied by the blocked-address check or the IP window
\* check, and the call that directly follows unblockPeer(p) for peer p is not
\* denied by the peer's block or the peer's rate, also inside the window
\* whose limit was exceeded.
C38_UnblockImmediate ==
  [][last'.op = "allowConnection" =>
       /\ (last.op = "unblockIP" /\ last.reason = "lifted" /\ last'.ip = last.ip)
             => last'.reason \notin {"ipblocked", "iplimit"}
       /\ (last.op = "unblockPeer" /\ last.reason = "lifted" /\ last'.peer = last.peer)
             => last'.reason \notin {"peerblocked", "rate"}]_vars

\* the address half of C38 alone
C38_AddressUnblockImmediate ==
  [][(/\ last'.op = "allowConnection"
      /\ last.op = "unblockIP" /\ last.reason = "lifted" /\ last'.ip = last.ip)
       => last'.reason \notin {"ipblocked", "iplimit"}]_vars

\* the state the unblocked peer or address is in after that next call: denied
\* inside the window by the counter that was left at its limit, and blocked
\* again
C38_BlockedAgainInWindow ==
  /\ last.op = "allowConnection"
  /\ ~last.allowed
  /\ \/ /\ last.reason = "rate"
        /\ last.peer \in DOMAIN peerMetrics
        /\ peerMetrics[last.peer].blocked
        /\ peerMetrics[last.peer].blockedUntil = now + blockDurationMs
        /\ peerMetrics[last.peer].connections = maxConnectionsPerPeer
        /\ now - peerMetrics[last.peer].lastConnection < connectionWindowMs
     \/ /\ last.reason = "iplimit"
        /\ last.ip \in blockedIPs
        /\ last.ip \in DOMAIN ipMetrics
        /\ ipMetrics[last.ip].connections = maxConnectionsPerIP
        /\ now - ipMetrics[last.ip].lastConnection < connectionWindowMs

\* ------------------------------------------------------------------------
\* Properties of the StorageWebSocketRelay
\* ------------------------------------------------------------------------
\* how many send() calls of one kind carried requestId r
CountOf(b, r, type, err) ==
  LET ms == {m \in DOMAIN b : m.requestId = r /\ m.type = type /\ m.error = err}
      RECURSIVE Sum(_)
      Sum(S) == IF S = {} THEN 0
                ELSE LET m == CHOOSE x \in S : TRUE IN b[m] + Sum(S \ {m})
  IN Sum(ms)

FwdCount(b, r) == CountOf(b, r, "storage-request", "")
RespCount(b, r) == CountOf(b, r, "storage-response", "")
TimeoutCount(b, r) == CountOf(b, r, "error", "Storage request timed out")

\* the bag b with one more occurrence of m
Plus(b, m) == [x \in (DOMAIN b) \cup {m} |->
                 IF x \in DOMAIN b THEN (IF x = m THEN b[x] + 1 ELSE b[x]) ELSE 1]

\* C6: a storage-response for a pending requestId sends exactly one
\* storage-response to the recorded origin and removes the PendingRequest;
\* a storage-response for a requestId that is not pending sends nothing and
\* leaves the registry and the pending table unchanged; each forwarded
\* request is answered at most once.
C6_ResponseDeliveredOnce ==
  [][\A r \in ReqIds :
       (ev'.op = "storage-response" /\ ev'.requestId = r) =>
         /\ IF r \in DOMAIN pendingRequests
            THEN LET m == Msg(pendingRequests[r].browserWs, "storage-response", r, "")
                 IN /\ ev'.sent = {m}
                    /\ sent' = Plus(sent, m)
                    /\ pendingRequests' = [x \in (DOMAIN pendingRequests) \ {r} |-> pendingRequests[x]]
            ELSE /\ ev'.sent = {}
                 /\ sent' = sent
                 /\ pendingRequests' = pendingRequests
         /\ nodeConnections' = nodeConnections
         /\ RespCount(sent', r) <= FwdCount(sent', r)]_vars

\* a second response for a request that was forwarded once and answered once is dropped
C6_Witness ==
  /\ ev.op = "storage-response"
  /\ ev.sent = {}
  /\ FwdCount(sent, ev.requestId) = 1
  /\ RespCount(sent, ev.requestId) = 1

\* C7: the sweep sends exactly one 'timed out' error to the origin of every
\* PendingRequest older than the threshold and removes it, so no request is
\* reported twice; a storage-response arriving after that is sent to no one.
C7_TimeoutOnce ==
  [][/\ ev'.op = "sweep" =>
          LET old == {r \in DOMAIN pendingRequests :
                        now - pendingRequests[r].timestamp > RequestTimeoutMs}
          IN /\ ev'.sent = {ErrorMsg(pendingRequests[r].browserWs,
                                     "Storage request timed out", r) : r \in old}
             /\ DOMAIN pendingRequests' = (DOMAIN pendingRequests) \ old
             /\ \A r \in DOMAIN pendingRequests' : pendingRequests'[r] = pendingRequests[r]
     /\ \A r \in ReqIds :
          /\ TimeoutCount(sent', r) - TimeoutCount(sent, r) \in
               IF ev'.op = "sweep" /\ r \in DOMAIN pendingRequests
                  /\ now - pendingRequests[r].timestamp > RequestTimeoutMs
               THEN {1} ELSE {0}
          /\ TimeoutCount(sent', r) + RespCount(sent', r) <= FwdCount(sent', r)
          /\ (ev'.op = "storage-response" /\ ev'.requestId = r
                /\ r \notin DOMAIN pendingRequests) => (ev'.sent = {} /\ sent' = sent)]_vars

\* a response arrives after its request was timed out (once) and is dropped
C7_Witness ==
  /\ ev.op = "storage-response"
  /\ ev.sent = {}
  /\ TimeoutCount(sent, ev.requestId) = 1
  /\ FwdCount(sent, ev.requestId) = 1
  /\ RespCount(sent, ev.requestId) = 0

\* C8: a storage-request naming a targetPeerId that is not in the registry
\* is answered with an error to the submitting socket, forwards nothing and
\* leaves the pending table unchanged.
C8_UnknownTargetRejected ==
  [][(ev'.op = "storage-request" /\ ev'.requestId # NoReq
        /\ ev'.named # NoTarget /\ ev'.named \notin RegKeys(nodeConnections)) =>
       /\ ev'.sent = {ErrorMsg(ev'.ws, "Storage node not connected", ev'.requestId)}
       /\ pendingRequests' = pendingRequests
       /\ \A r \in ReqIds : FwdCount(sent', r) = FwdCount(sent, r)]_vars

\* rejected while another backend is registered and another request is pending
C8_Witness ==
  /\ ev.op = "storage-request"
  /\ ev.named # NoTarget
  /\ ev.named \notin RegKeys(nodeConnections)
  /\ Len(nodeConnections) > 0
  /\ ev.sent = {ErrorMsg(ev.ws, "Storage node not connected", ev.requestId)}
  /\ ev.requestId \notin DOMAIN pendingRequests
  /\ pendingRequests # EmptyMap

\* C9: a storage-request without targetPeerId goes to the earliest-inserted
\* backend still registered; with an empty registry it is answered with
\* 'no backend available' and no PendingRequest is created.
C9_FirstAvailable ==
  [][(ev'.op = "storage-request" /\ ev'.requestId # NoReq /\ ev'.named = NoTarget) =>
       IF regOrder = <<>>
       THEN /\ ev'.sent = {ErrorMsg(ev'.ws, "No storage nodes available", ev'.requestId)}
            /\ pendingRequests' = pendingRequests
       ELSE /\ ev'.target = regOrder[1]
            /\ ev'.target \in RegKeys(nodeConnections)
            /\ ~ev'.threw =>
                 ev'.sent = {Msg(RegGet(nodeConnections, regOrder[1]).ws,
                                 "storage-request", ev'.requestId, "")}]_vars

\* two backends registered, B2 first: the request goes to B2
C9_Witness ==
  /\ ev.op = "storage-request"
  /\ ev.named = NoTarget
  /\ Len(nodeConnections) = 2
  /\ regOrder = <<"B2", "B1">>
  /\ ev.target = "B2"
  /\ ~ev.threw
  /\ ev.requestId \in DOMAIN pendingRequests

\* C10: when send() to the selected backend throws, the PendingRequest is
\* removed and an error goes to the origin; when it does not, the
\* PendingRequest is present with the submitting socket as origin.
C10_ForwardFailureUndone ==
  [][(ev'.op = "storage-request" /\ ev'.target # NoTarget) =>
       IF ev'.threw
       THEN /\ ev'.requestId \notin DOMAIN pendingRequests'
            /\ ev'.sent = {ErrorMsg(ev'.ws, "Failed to forward request to storage node",
                                    ev'.requestId)}
       ELSE /\ ev'.requestId \in DOMAIN pendingRequests'
            /\ pendingRequests'[ev'.requestId].browserWs = ev'.ws
            /\ pendingRequests'[ev'.requestId].timestamp = now
            /\ \E m \in ev'.sent : m.type = "storage-request" /\ m.requestId = ev'.requestId]_vars

C10_Witness ==
  /\ ev.op = "storage-request"
  /\ ev.threw
  /\ ev.requestId \notin DOMAIN pendingRequests
  /\ ev.sent = {ErrorMsg(ev.ws, "Failed to forward request to storage node", ev.requestId)}

\* the storage-request messages among the send() calls of one step
Forwards(e) == {m \in e.sent : m.type = "storage-request"}

\* C11: handling one storage-request message sends it to at most one backend
\* socket at most once (the socket the registry holds for the selected
\* backend); no other step -- the sweep, a close, a registration, a response,
\* the passing of time -- sends a storage-request to anyone.
C11_ForwardedAtMostOnce ==
  [][/\ Cardinality(Forwards(ev')) <= 1
     /\ \A m \in Forwards(ev') :
          /\ ev'.op = "storage-request"
          /\ ~ev'.threw
          /\ m.requestId = ev'.requestId
          /\ m.to = RegGet(nodeConnections, ev'.target).ws
     /\ \A r \in ReqIds :
          FwdCount(sent', r) =
            FwdCount(sent, r) + (IF \E m \in Forwards(ev') : m.requestId = r THEN 1 ELSE 0)]_vars

\* a request forwarded once is timed out after its backend's socket closed,
\* while another backend is registered: it was not forwarded again
C11_Witness ==
  /\ ev.op = "sweep"
  /\ Len(nodeConnections) >= 1
  /\ \E m \in ev.sent :
       /\ FwdCount(sent, m.requestId) = 1
       /\ \E f \in DOMAIN sent :
            /\ f.type = "storage-request"
            /\ f.requestId = m.requestId
            /\ wsState[f.to] = "closed"

\* C12: with the sweep timer firing and the clock advancing, every
\* PendingRequest is eventually removed from the pending table, also when
\* its backend closed or was replaced after the request was forwarded.
C12_PendingEventuallyRemoved ==
  \A r \in ReqIds : (r \in DOMAIN pendingRequests) ~> (r \notin DOMAIN pendingRequests)

\* a request is still pending although the socket it was forwarded to has
\* closed and its backend is no longer registered
C12_Witness ==
  \E r \in DOMAIN pendingRequests :
    /\ nodeConnections = <<>>
    /\ \E f \in DOMAIN sent :
         /\ f.type = "storage-request"
         /\ f.requestId = r
         /\ wsState[f.to] = "closed"

UniqueIds(reg) ==
  \A i, j \in 1..Len(reg) : i # j => reg[i].peerId # reg[j].peerId

\* C13: the registry never holds two connections for one backend identifier;
\* a register message makes the registering socket the stored channel of its
\* identifier, replacing an earlier one, and leaves the other entries alone;
\* no other step changes a stored channel; a forwarded request goes to the
\* channel stored for its backend, hence to that of the last registration.
C13_OneConnectionPerId ==
  [][/\ UniqueIds(nodeConnections')
     /\ (ev'.op = "register" /\ ev'.target # NoTarget) =>
          /\ RegKeys(nodeConnections') = RegKeys(nodeConnections) \cup {ev'.target}
          /\ RegGet(nodeConnections', ev'.target).ws = ev'.ws
     /\ \A id \in RegKeys(nodeConnections') :
          ~(ev'.op = "register" /\ ev'.target = id) =>
            /\ id \in RegKeys(nodeConnections)
            /\ RegGet(nodeConnections', id) = RegGet(nodeConnections, id)
     /\ \A m \in Forwards(ev') : m.to = RegGet(nodeConnections, ev'.target).ws]_vars

\* B1 registered on c2 and a request went there; c3 then registered as B1
\* while c2 stayed open; the next request goes to c3
C13_Witness ==
  /\ ev.op = "storage-request"
  /\ ev.target = "B1"
  /\ \E m \in Forwards(ev) : m.to = "c3"
  /\ wsState["c2"] = "open"
  /\ Len(nodeConnections) = 1
  /\ nodeConnections[1].ws = "c3"
  /\ \E f \in DOMAIN sent : f.type = "storage-request" /\ f.to = "c2"

\* C14: a register message (also one replacing an entry) and a socket close
\* leave the pending table as it is and send nothing that carries a
\* requestId: no PendingRequest is removed, failed, re-targeted or notified.
C14_RegistryOpsKeepPending ==
  [][ev'.op \in {"register", "close"} =>
       /\ pendingRequests' = pendingRequests
       /\ sent' = sent
       /\ \A m \in ev'.sent : m.requestId = NoReq]_vars

\* a backend's socket closed and its entry was removed while a request
\* forwarded to that socket is still pending
C14_Witness ==
  /\ ev.op = "close"
  /\ ev.target # NoTarget
  /\ \E r \in DOMAIN pendingRequests :
       \E f \in DOMAIN sent :
         f.type = "storage-request" /\ f.requestId = r /\ f.to = ev.ws

\* C15: last write wins between a registration and a close: a register
\* message makes the registering socket the stored channel; a close removes
\* only entries whose stored channel is the closing socket, so the entry of
\* a backend that re-registered on another socket survives the close of the
\* earlier socket.
C15_LastWriteWins ==
  [][/\ (ev'.op = "register" /\ ev'.target # NoTarget) =>
          RegGet(nodeConnections', ev'.target).ws = ev'.ws
     /\ ev'.op = "close" =>
          /\ RegKeys(nodeConnections') \subseteq RegKeys(nodeConnections)
          /\ \A id \in RegKeys(nodeConnections) :
               IF RegGet(nodeConnections, id).ws # ev'.ws
               THEN /\ id \in RegKeys(nodeConnections')
                    /\ RegGet(nodeConnections', id) = RegGet(nodeConnections, id)
               ELSE id \in RegKeys(nodeConnections') =>
                      RegGet(nodeConnections', id) = RegGet(nodeConnections, id)]_vars

\* c2 was registered as B1 (a request went to it), B1 re-registered on c3,
\* then the close of c2 was handled: it removed nothing and B1 maps to c3
C15_Witness ==
  /\ ev.op = "close"
  /\ ev.ws = "c2"
  /\ ev.target = NoTarget
  /\ Len(nodeConnections) = 1
  /\ nodeConnections[1].peerId = "B1"
  /\ nodeConnections[1].ws = "c3"
  /\ wsState["c3"] = "open"
  /\ \E f \in DOMAIN sent : f.type = "storage-request" /\ f.to = "c2"

\* the peer identifiers a socket acts for: the one it is registering, and
\* those it is registered as
Identities(e, reg) ==
  (IF e.op = "register" THEN {e.target} ELSE {})
    \cup {reg[i].peerId : i \in {j \in 1..Len(reg) : reg[j].ws = e.ws}}

\* the step stored a registration, forwarded a request or delivered a response
RelayOperationPerformed(e) ==
  \/ e.op = "register" /\ e.target # NoTarget
  \/ e.op = "storage-request" /\ Forwards(e) # {}
  \/ e.op = "storage-response" /\ e.sent # {}

\* C16 (as claimed): a registration is stored, a request forwarded or a
\* response delivered only for a connection whose peer was evaluated by the
\* rate limiter and allowed; a denied or never evaluated connection takes
\* part in none of them.
C16_OnlyAdmittedParticipate ==
  [][RelayOperationPerformed(ev') =>
       Identities(ev', nodeConnections) \cap admitted # {}]_vars

\* a peer whose peer:connect was denied registers as a backend all the same
C16_DeniedRegisters ==
  /\ ev.op = "register"
  /\ last.op = "allowConnection"
  /\ ~last.allowed
  /\ last.peer = ev.target
  /\ ev.target \in RegKeys(nodeConnections)
  /\ ev.target \notin admitted

\* the error texts handleStorageRequest answers a request with
RequestErrors ==
  {"Missing required fields in storage request", "No storage nodes available",
   "Storage node not connected", "Failed to forward request to storage node"}

FailCount(b, r) == CountOf(b, r, "error", "Failed to forward request to storage node")

\* the storage-request messages handled with requestId r: each one is
\* answered by a forward or by one of the request errors
Uses(b, r) ==
  FwdCount(b, r)
    + CountOf(b, r, "error", "Missing required fields in storage request")
    + CountOf(b, r, "error", "No storage nodes available")
    + CountOf(b, r, "error", "Storage node not connected")
    + FailCount(b, r)

\* C23: for a requestId used by one request, at most one terminal message is
\* ever sent among the storage-response, the 'timed out' error and the
\* forward-failure error: the three outcomes exclude each other and none is
\* followed by another; a forward failure means the request was not sent.
C23_OneTerminalMessage ==
  \A r \in ReqIds :
    Uses(sent, r) = 1 =>
      /\ RespCount(sent, r) + TimeoutCount(sent, r) + FailCount(sent, r) <= 1
      /\ \A m \in DOMAIN sent :
           (m.requestId = r /\ m.type \in {"storage-response", "error"}) =>
             m.to \in ClientChannels

\* two requests, each used once: one was answered, the other has just been
\* timed out by the sweep
C23_Witness ==
  /\ ev.op = "sweep"
  /\ \E r, q \in ReqIds :
       /\ r # q
       /\ Uses(sent, r) = 1 /\ Uses(sent, q) = 1
       /\ \E m \in ev.sent : m.requestId = r /\ m.error = "Storage request timed out"
       /\ TimeoutCount(sent, r) = 1 /\ RespCount(sent, r) = 0
       /\ RespCount(sent, q) = 1 /\ TimeoutCount(sent, q) = 0

\* C24: a step that forwards a request leaves its PendingRequest recorded
\* with the submitting socket as origin; a storage-response is delivered
\* only for a requestId that was forwarded before; a response handled as
\* the very next step after the forward is delivered to the origin.
C24_RecordedBeforeForwarded ==
  [][/\ \A m \in Forwards(ev') :
          /\ m.requestId \in DOMAIN pendingRequests'
          /\ pendingRequests'[m.requestId].browserWs = ev'.ws
     /\ \A r \in ReqIds :
          RespCount(sent', r) > RespCount(sent, r) => FwdCount(sent, r) > 0
     /\ (Forwards(ev) # {} /\ ev'.op = "storage-response"
           /\ ev'.requestId = ev.requestId) =>
          ev'.sent = {Msg(ev.ws, "storage-response", ev.requestId, "")}]_vars

\* register, request, response and nothing else: the response was delivered
C24_Witness ==
  /\ handled = 3
  /\ ev.op = "storage-response"
  /\ ev.sent # {}
  /\ \A m \in ev.sent : m.to \in ClientChannels /\ m.requestId = ev.requestId
  /\ FwdCount(sent, ev.requestId) = 1
  /\ RespCount(sent, ev.requestId) = 1

\* C25: a storage-response is sent only to the origin recorded for its own
\* requestId; the delivery of one request and the timing out of requests
\* leave every other PendingRequest as it is.
C25_RoutedToOwnOrigin ==
  [][/\ ev'.op = "storage-response" =>
          /\ \A m \in ev'.sent :
               /\ m.type = "storage-response"
               /\ m.requestId = ev'.requestId
               /\ ev'.requestId \in DOMAIN pendingRequests
               /\ m.to = pendingRequests[ev'.requestId].browserWs
          /\ \A r \in DOMAIN pendingRequests :
               r # ev'.requestId =>
                 (r \in DOMAIN pendingRequests' /\ pendingRequests'[r] = pendingRequests[r])
     /\ ev'.op = "sweep" =>
          /\ \A m \in ev'.sent :
               /\ m.requestId \in DOMAIN pendingRequests
               /\ m.to = pendingRequests[m.requestId].browserWs
          /\ \A r \in DOMAIN pendingRequests :
               r \notin {m.requestId : m \in ev'.sent} =>
                 (r \in DOMAIN pendingRequests' /\ pendingRequests'[r] = pendingRequests[r])]_vars

\* one request is answered to its origin while the other client's request
\* stays pending
C25_Witness ==
  /\ ev.op = "storage-response"
  /\ ev.sent # {}
  /\ \E r \in DOMAIN pendingRequests :
       /\ r # ev.requestId
       /\ \A m \in ev.sent : m.to # pendingRequests[r].browserWs

\* the sweep timed out one request and left the other client's younger
\* request pending
C25_SweepKeepsYounger ==
  /\ ev.op = "sweep"
  /\ ev.sent # {}
  /\ \E r \in DOMAIN pendingRequests :
       \A m \in ev.sent : m.requestId # r /\ m.to # pendingRequests[r].browserWs

\* the step answered ws with exactly one error and changed neither table,
\* nor the state of any socket, and forwarded nothing
RejectedUnchanged(ws, err, r) ==
  /\ ev'.sent = {ErrorMsg(ws, err, r)}
  /\ nodeConnections' = nodeConnections
  /\ pendingRequests' = pendingRequests
  /\ wsState' = wsState
  /\ wsState'[ws] = "open"
  /\ \A q \in ReqIds : FwdCount(sent', q) = FwdCount(sent, q)

\* C26: a register without peerId, a storage-request without requestId or
\* without data, a message that does not parse and a message of unknown
\* type are each answered with one error to the sending socket; the
\* registry and the pending table stay as they are, nothing is forwarded,
\* and the sender's socket stays open and registered.
C26_MalformedRejected ==
  [][\A ws \in Channels :
       /\ (ev'.op = "register" /\ ev'.ws = ws /\ ev'.target = NoTarget) =>
            RejectedUnchanged(ws, "Missing peerId in register message", NoReq)
       /\ \A r \in ReqIds \cup {NoReq}, hasData \in BOOLEAN :
            ((r = NoReq \/ ~hasData) /\ StorageRequest(ws, r, hasData, NoTarget, FALSE)) =>
              RejectedUnchanged(ws, "Missing required fields in storage request", r)
       /\ (ev'.op = "malformed" /\ ev'.ws = ws) =>
            \E err \in ParseErrors : RejectedUnchanged(ws, err, NoReq)]_vars

\* a registered backend with a request pending sent a message that could
\* not be handled and is still open and registered
C26_Witness ==
  /\ ev.op = "malformed"
  /\ \E i \in 1..Len(nodeConnections) : nodeConnections[i].ws = ev.ws
  /\ wsState[ev.ws] = "open"
  /\ pendingRequests # EmptyMap

\* a request without data reused the id of a pending request of the other
\* client: rejected, the pending request is still the other client's
C26_MissingDataRejected ==
  /\ ev.op = "storage-request"
  /\ ev.sent = {ErrorMsg(ev.ws, "Missing required fields in storage request", ev.requestId)}
  /\ ev.requestId \in DOMAIN pendingRequests
  /\ pendingRequests[ev.requestId].browserWs # ev.ws

\* a register without peerId from a socket that is registered
C26_RegisterWithoutPeerId ==
  /\ ev.op = "register"
  /\ ev.sent = {ErrorMsg(ev.ws, "Missing peerId in register message", NoReq)}
  /\ \E i \in 1..Len(nodeConnections) : nodeConnections[i].ws = ev.ws

\* ------------------------------------------------------------------------
\* Properties of the RelayNode's peer directory and identity
\* ------------------------------------------------------------------------
\* C31: the cleanup removes exactly the tracked nodes last seen more than
\* StaleThresholdMs ago; with the cleanup firing every DirCleanupIntervalMs
\* no tracked node, hence no node of a directory response, was last seen
\* more than StaleThresholdMs + DirCleanupIntervalMs before; a storage
\* node's announcement sets its lastSeen to now and it is listed.
C31_StaleNodesRemoved ==
  [][/\ dirEv'.op = "cleanup" =>
          /\ DOMAIN storageNodes' =
               {n \in DOMAIN storageNodes : ~(now - storageNodes[n] > StaleThresholdMs)}
          /\ \A n \in DOMAIN storageNodes' : storageNodes'[n] = storageNodes[n]
     /\ \A n \in DOMAIN storageNodes' :
          now' - storageNodes'[n] <= StaleThresholdMs + DirCleanupIntervalMs
     /\ dirEv'.op = "directory" =>
          /\ {e.peerId : e \in dirEv'.peers} = DOMAIN storageNodes
          /\ \A e \in dirEv'.peers :
               /\ e.lastSeen = storageNodes[e.peerId]
               /\ dirEv'.timestamp - e.lastSeen <= StaleThresholdMs + DirCleanupIntervalMs
     /\ (dirEv'.op = "announce" /\ dirEv'.kind = "storage") =>
          /\ dirEv'.from \in DOMAIN storageNodes'
          /\ storageNodes'[dirEv'.from] = now
     /\ (dirEv'.op = "announce" /\ dirEv'.kind # "storage") =>
          storageNodes' = storageNodes]_vars

\* a directory response lists a node last seen exactly StaleThresholdMs +
\* DirCleanupIntervalMs ago, next to a node that announced again just now
C31_Witness ==
  /\ dirEv.op = "directory"
  /\ \E e \in dirEv.peers : dirEv.timestamp - e.lastSeen = StaleThresholdMs + DirCleanupIntervalMs
  /\ \E e \in dirEv.peers : e.lastSeen = dirEv.timestamp

\* the cleanup has just removed a node and kept the other one
C31_StaleRemovedFreshKept ==
  /\ dirEv.op = "cleanup"
  /\ Cardinality(DOMAIN storageNodes) = 1
  /\ \E n \in DOMAIN storageNodes : now - storageNodes[n] = StaleThresholdMs

\* C32: the first start creates a key and stores it; every later start
\* loads the stored key and leaves the file as it is, so the running node
\* always has the key, and the peer id, of the first start; a stop leaves
\* the file alone.
C32_IdentityStable ==
  [][/\ idEv'.op = "start" =>
          /\ idEv'.created = (starts = 0)
          /\ starts = 0 => (keyFile = NoFile /\ keyFile' # NoFile
                            /\ KeyInFile(keyFile') = nodeKey')
          /\ starts > 0 => keyFile' = keyFile
          /\ nodeKey' \in GeneratedKeys
          /\ nodeKey' = firstKey'
          /\ PeerIdOf(nodeKey') = PeerIdOf(firstKey')
     /\ idEv'.op = "stop" => keyFile' = keyFile]_vars

\* the node runs after its last start, having loaded a key whose encoding
\* ends in padding
C32_Witness ==
  /\ idEv.op = "start"
  /\ ~idEv.created
  /\ starts = MaxStarts
  /\ nodeKey = firstKey
  /\ Len(nodeKey.raw) = 3
  /\ keyFile[1].privateKey[Len(keyFile[1].privateKey)] = 64

\* the sockets to which the request r has been forwarded so far
ForwardedTo(b, r) ==
  {m.to : m \in {x \in DOMAIN b : x.type = "storage-request" /\ x.requestId = r}}

\* C35 (as claimed): a storage-response is delivered, and its
\* PendingRequest removed, only when it arrives on a socket the request was
\* forwarded to; one arriving on any other socket sends nothing and leaves
\* the pending table as it is.
C35_OnlyTargetAnswers ==
  [][ev'.op = "storage-response" =>
       IF ev'.ws \in ForwardedTo(sent, ev'.requestId)
       THEN TRUE
       ELSE /\ ev'.sent = {}
            /\ pendingRequests' = pendingRequests]_vars

\* a response from a socket that never received the request was delivered
\* to the origin and the PendingRequest is gone
C35_ForgedResponseDelivered ==
  /\ ev.op = "storage-response"
  /\ ev.sent # {}
  /\ ev.ws \notin ForwardedTo(sent, ev.requestId)
  /\ ForwardedTo(sent, ev.requestId) # {}
  /\ ev.requestId \notin DOMAIN pendingRequests
  /\ \A i \in 1..Len(nodeConnections) : nodeConnections[i].ws # ev.ws

\* the sockets the registry refers to
RegisteredSockets(reg) == {reg[i].ws : i \in 1..Len(reg)}

\* C36 (as claimed): once the close of a socket has been processed no
\* BackendConnection refers to that socket, also when the socket registered
\* under more than one identifier, and no later storage-request is forwarded
\* to a closed socket.
C36_ClosedSocketForgotten ==
  /\ [](\A ws \in Channels :
         wsState[ws] = "closed" => ws \notin RegisteredSockets(nodeConnections))
  /\ [][\A m \in ev'.sent :
          (ev'.op = "storage-request" /\ m.type = "storage-request")
            => wsState[m.to] # "closed"]_vars

\* the close of a socket registered under two identifiers has been
\* processed and the registry still holds the socket under the other one
C36_ClosedSocketStillRegistered ==
  /\ ev.op = "close"
  /\ wsState[ev.ws] = "closed"
  /\ ev.target # NoTarget
  /\ ev.ws \in RegisteredSockets(nodeConnections)

\* a request has been forwarded to a socket whose close was processed
C36_ForwardedToClosedSocket ==
  /\ ev.op = "storage-request"
  /\ \E m \in ev.sent : m.type = "storage-request" /\ wsState[m.to] = "closed"
  /\ ev.requestId \in DOMAIN pendingRequests

\* C37 (as claimed): while the PendingRequest of r exists its origin and its
\* timestamp stay what they were, and a storage-request that reuses r while
\* it is pending leaves the entry of the first request in place.
C37_PendingEntryFixed ==
  [][/\ \A r \in DOMAIN pendingRequests \cap DOMAIN pendingRequests' :
          pendingRequests'[r] = pendingRequests[r]
     /\ ev'.op = "storage-request" =>
          DOMAIN pendingRequests \subseteq DOMAIN pendingRequests']_vars

\* a later request of another socket has taken over the entry of r: the
\* first requester got neither an answer nor an error, and the entry holds
\* the second socket and the later time
C37_EntryReplaced ==
  /\ ev.op = "storage-request"
  /\ ev.requestId \in DOMAIN pendingRequests
  /\ pendingRequests[ev.requestId].browserWs = ev.ws
  /\ pendingRequests[ev.requestId].timestamp = now
  /\ now > 0
  /\ \E m \in DOMAIN sent :
       /\ m.type = "storage-request"
       /\ m.requestId = ev.requestId
       /\ sent[m] = 2
  /\ \A m \in DOMAIN sent : m.requestId = ev.requestId => m.type = "storage-request"

\* a reusing request whose forward failed has deleted the entry of the
\* first request, which is still unanswered
C37_EntryDeletedByReuse ==
  /\ ev.op = "storage-request"
  /\ ev.threw
  /\ ev.requestId \notin DOMAIN pendingRequests
  /\ \E m \in DOMAIN sent : m.type = "storage-request" /\ m.requestId = ev.requestId
  /\ \A m \in DOMAIN sent :
       (m.requestId = ev.requestId /\ m.type # "storage-request") => m.to = ev.ws

\* C39 (as claimed): with the listeners of the relay node driving the
\* limiter, the connection count of a peer is never lower than the number of
\* its open connections that were allowed in its current window, and the
\* close of a connection whose evaluation was denied leaves the count as it
\* is.
C39_CountCoversOpenAllowed ==
  /\ [](\A p \in Peers : PeerCount(peerMetrics, p) >= openConns[p].cur)
  /\ [][\A p \in Peers :
          ConnCloses(p, "denied") =>
            PeerCount(peerMetrics', p) = PeerCount(peerMetrics, p)]_vars

\* the count of the peer is below the number of its open connections that
\* were allowed in the window that is still running, none of them older
C39_CountBelowOpenAllowed ==
  /\ last.op = "recordDisconnection"
  /\ last.peer \in DOMAIN peerMetrics
  /\ peerMetrics[last.peer].connections < openConns[last.peer].cur
  /\ openConns[last.peer].old = 0
  /\ peerMetrics[last.peer].blocked
  /\ now - peerMetrics[last.peer].lastConnection < connectionWindowMs

Age(pr, r, t) == t - pr[r].timestamp

\* C40: with the sweep run by its 30 s timer, no PendingRequest stays in the
\* table at an age above 60 s plus one sweep interval; the sweep removes an
\* entry only at an age above 60 s and at most 60 s plus one interval, and
\* tells its origin 'timed out'; entries aged 60 s or less stay as they are,
\* and so do the registry and the sockets.
C40_TimeoutWithinOneInterval ==
  /\ [](\A r \in DOMAIN pendingRequests :
         Age(pendingRequests, r, now) <= RequestTimeoutMs + SweepIntervalMs)
  /\ [][ev'.op = "sweep" =>
          /\ \A r \in DOMAIN pendingRequests :
               IF r \in DOMAIN pendingRequests'
               THEN /\ Age(pendingRequests, r, now) <= RequestTimeoutMs
                    /\ pendingRequests'[r] = pendingRequests[r]
                    /\ \A m \in ev'.sent : m.requestId # r
               ELSE /\ Age(pendingRequests, r, now) > RequestTimeoutMs
                    /\ Age(pendingRequests, r, now) <= RequestTimeoutMs + SweepIntervalMs
                    /\ ErrorMsg(pendingRequests[r].browserWs,
                                "Storage request timed out", r) \in ev'.sent
          /\ DOMAIN pendingRequests' \subseteq DOMAIN pendingRequests
          /\ nodeConnections' = nodeConnections
          /\ wsState' = wsState]_vars

\* the timer sweep timed out a request and kept the other one, which is
\* exactly 60 s old
C40_Witness ==
  /\ ev.op = "sweep"
  /\ lastSweep = now
  /\ \E m \in ev.sent : m.error = "Storage request timed out"
  /\ \E r \in DOMAIN pendingRequests : Age(pendingRequests, r, now) = RequestTimeoutMs
  /\ nodeConnections # <<>>

\* a request made between two sweeps is pending at an age above 60 s, until
\* the next firing of the timer
C40_PendingPastThreshold ==
  \E r \in DOMAIN pendingRequests :
    /\ Age(pendingRequests, r, now) > RequestTimeoutMs
    /\ Age(pendingRequests, r, now) < RequestTimeoutMs + SweepIntervalMs
    /\ ~SweepDue

====
